---- MODULE Spec2Model ----
(***************************************************************************)
(* State-machine model of the rpgcell backend (GameService): the cell      *)
(* store, the player records and the asynchronous handlers that read and   *)
(* write them.  A handler is a sequence of steps; one step is one database *)
(* operation together with the synchronous code that follows it, so that  *)
(* handlers interleave exactly at their awaits.                            *)
(***************************************************************************)
EXTENDS Integers, Sequences, FiniteSets, Bags, TLC

\* ------------------------------------------------------------- bounds
\* number of handler invocations started in one behaviour
MaxOps == 2
\* number of handlers that can be in flight at the same time
MaxProcs == 2
\* the highest power, stamina and defense of a player drawn for the power check
MaxStat == 4
\* the highest power of a cell drawn for the power check
MaxCellPower == 31

\* -------------------------------------------------- program constants
InitialSatiety == 255
InitialWeight == 255
InitialHealth == 100
GrayPower == 16
MaxAmount == 10

\* ------------------------------------------------------------ helpers
Max(a, b) == IF a >= b THEN a ELSE b
Min(a, b) == IF a <= b THEN a ELSE b
\* Math.round(n / d) for d > 0: floor(n/d + 1/2)
Round(n, d) == (2 * n + d) \div (2 * d)
\* Math.ceil(n / d) for d > 0
Ceil(n, d) == -((-n) \div d)
\* an optional value (undefined / null in the store) is <<>> or <<v>>
None == <<>>
Some(v) == <<v>>
Has(o) == o # <<>>
Val(o) == o[1]

\* ------------------------------------------------------------- colours
\* a colour #rrggbb is the integer r * 65536 + g * 256 + b
Rgb(r, g, b) == r * 65536 + g * 256 + b
White == Rgb(255, 255, 255)
BuildingRed == Rgb(255, 0, 0)
Red(c) == c \div 65536
Green(c) == (c \div 256) % 256
Blue(c) == c % 256
Clamp255(v) == Min(255, Max(0, v))

\* BASE_COLORS = generateColorPalette(256), its first 24 entries
BASE_COLORS ==
  << 10692905, 3069534, 15095466, 13020949, 2281457, 16470446, 5357101,
     14501451, 15440239, 1435029, 16072166, 10866179, 3573203, 14966395,
     1689639, 15608690, 16302937, 126947, 14372279, 11332214, 1653734,
     15882565, 446554, 13647524 >>

\* colorSources: the four points of the map and their constant colours,
\* BASE_COLORS[5], [25], [55] and [105] of the palette
colorSources ==
  { [x |-> -10, y |-> 0, color |-> BASE_COLORS[6]],
    [x |-> 10, y |-> 0, color |-> 1939657],
    [x |-> 0, y |-> -10, color |-> 13899793],
    [x |-> 0, y |-> 10, color |-> 14852918] }

\* --------------------------------------------------------------- world
Players == {"p1", "p2"}
\* the keys `${x}:${y}` of the cells the model stores
K1 == "0:0"
K2 == "1:0"
K3 == "-3:4"
K4 == "0:1"
K5 == "1:1"
K6 == "0:3"
K7 == "0:8"
Cells == {K1, K2, K3, K4, K5, K6, K7}
\* the coordinates behind a key
Xs == (K1 :> 0) @@ (K2 :> 1) @@ (K3 :> -3) @@ (K4 :> 0) @@ (K5 :> 1) @@ (K6 :> 0)
        @@ (K7 :> 0)
Ys == (K1 :> 0) @@ (K2 :> 0) @@ (K3 :> 4) @@ (K4 :> 1) @@ (K5 :> 1) @@ (K6 :> 3)
        @@ (K7 :> 8)
\* the cells the clients of the tap, move and drop handlers address
Targets == {K1, K3}

Params(f, b, e, p) == [food |-> f, building |-> b, experience |-> e, power |-> p]
TerminalParams == Params(0, 0, 0, 1)

\* POWER_VALUES = [1, 8, 16, ..., 248]
POWER_VALUES == [i \in 1 .. 32 |-> IF i = 1 THEN 1 ELSE 8 * (i - 1)]

\* all the model's cells lie on the diagonal segment floor((x + y) / 10) = 0, whose
\* lineWidth is 3; stripIndex = floor((x - y) / lineWidth)
stripIndex(k) == (Xs[k] - Ys[k]) \div 3

\* the power and the experience the seeded draw yields on a strip, by the position
\* in POWER_VALUES of the smallest power allowed (33: none is allowed, the power
\* is the last of POWER_VALUES); food and building depend on the strip only
StripFood == (0 :> 30) @@ (-1 :> 31) @@ (-3 :> 33)
StripBuilding == (0 :> 30) @@ (-1 :> 46) @@ (-3 :> 78)
StripPower ==
  (0 :> << 1, 8, 16, 24, 32, 40, 48, 56, 64, 72, 80, 88, 96, 104, 112, 120, 128,
           136, 144, 152, 160, 168, 176, 184, 192, 200, 208, 216, 224, 232, 240,
           248, 248 >>)
  @@ (-1 :> << 1, 8, 16, 32, 40, 48, 64, 72, 80, 88, 96, 104, 112, 120, 128, 136,
               144, 152, 160, 168, 176, 184, 184, 192, 200, 208, 216, 224, 224,
               232, 240, 248, 248 >>)
  @@ (-3 :> << 8, 120, 160, 184, 192, 200, 208, 216, 216, 224, 224, 232, 232, 232,
               232, 240, 240, 240, 240, 240, 240, 240, 248, 248, 248, 248, 248,
               248, 248, 248, 248, 248, 248 >>)
StripExperience ==
  (0 :> [i \in 1 .. 33 |-> 20])
  @@ (-1 :> << 20, 20, 21, 22, 23, 24, 26, 28, 29, 30, 32, 34, 36, 38, 40, 43, 46,
               49, 52, 56, 59, 64, 64, 68, 73, 78, 84, 90, 90, 96, 103, 111, 111 >>)
  @@ (-3 :> << 20, 28, 37, 45, 48, 51, 55, 60, 60, 65, 65, 70, 70, 70, 70, 76, 76,
               76, 76, 76, 76, 76, 83, 83, 83, 83, 83, 83, 83, 83, 83, 83, 83 >>)

\* a filter that lets every power through, whatever the minimum
firstOfAll(minPower) == 1 + 0 * minPower

\* validPowers = POWER_VALUES.filter(p => p >= actualMinPower): where it starts
firstValid(minPower) ==
  LET actualMinPower == Max(1, minPower)
      valid == {i \in 1 .. 32 : POWER_VALUES[i] >= actualMinPower}
  IN  IF valid = {} THEN 33 ELSE CHOOSE i \in valid : \A j \in valid : i <= j

\* generateCellParamsWithMinPower(x, y, minPower)
generateCellParamsWithMinPower(k, minPower) ==
  LET strip == stripIndex(k)
      i == firstValid(minPower)
  IN  Params(StripFood[strip], StripBuilding[strip], StripExperience[strip][i],
             StripPower[strip][i])

\* generateCellParams(x, y): the weighted draw over all of POWER_VALUES
generateCellParams(k) == generateCellParamsWithMinPower(k, 1)

\* paramsToColor(params, constructionPoints, constructionType)
paramsToColor(params, constructionPoints, constructionType) ==
  IF constructionPoints > 0 /\ Has(constructionType) /\ Val(constructionType) > 0
  THEN LET maxPts == Val(constructionType) * 255
           pts == Min(constructionPoints, maxPts)
           \* Math.round(255 - pts / maxPts * 255)
           br == Round(255 * maxPts - 255 * pts, maxPts)
       IN  Rgb(br, br, br)
  ELSE LET br == 115 - params.power
       IN  Rgb(Clamp255(params.building + br), Clamp255(params.food + br), Clamp255(br))

\* ------------------------------------------------------ economy formulas
\* weights are kept in 1/32 units: count * food / 16 + count * experience / 32
getItemWeightFromParams32(params, count) ==
  2 * count * params.food + count * params.experience
getItemWeight32(color, count) ==
  2 * count * Green(color) + count * Blue(color)
getMaxInventoryWeight(playerWeight, playerStamina) ==
  Round(playerWeight * (10 + playerStamina), 20)

\* the power check with its comparison turned into >= (a cell at the bound is rejected)
InsufficientPowerAtBound(pl, cellPower) ==
  LET mult2 == pl.power + pl.stamina - 2 * pl.defense
      cps10 == IF 5 * mult2 >= 1 THEN pl.collectionPower * 5 * mult2
               ELSE pl.collectionPower
      max10 == Max(10, cps10)
  IN  10 * cellPower >= max10

\* collection eligibility, halves of the multiplier kept exact:
\* multiplier = power/2 + stamina/2 - defense, safeMultiplier = max(0.1, multiplier),
\* maxCellPower = max(1, collectionPower * safeMultiplier); the test is cellPower > maxCellPower
InsufficientPower(pl, cellPower) ==
  LET mult2 == pl.power + pl.stamina - 2 * pl.defense     \* 2 * multiplier
      \* 10 * collectionPower * safeMultiplier
      cps10 == IF 5 * mult2 >= 1 THEN pl.collectionPower * 5 * mult2
               ELSE pl.collectionPower
      max10 == Max(10, cps10)
  IN  10 * cellPower > max10

\* foodCost = max(0, ceil(collectionPower - (power + stamina + defense) / 3))
tapFoodCost(pl) ==
  Max(0, Ceil(3 * pl.collectionPower - (pl.power + pl.stamina + pl.defense), 3))

\* a cost without the minimum of 1
moveCostUnfloored(pl) ==
  Round(pl.weight * Max(0, pl.collectionPower - pl.stamina), 100)

\* moveCost = max(1, round(weight * 0.01 * max(0, collectionPower - stamina)))
moveCost(pl) ==
  Max(1, Round(pl.weight * Max(0, pl.collectionPower - pl.stamina), 100))

\* the weight written by the 'weight' upgrade, and the satiety rescaled with it
upgradedWeight(w) == Round(11 * w, 10)
\* a satiety scaled by more than the weight is
overscaledSatiety(s) == Round(12 * s, 10)
upgradedSatiety(s) == Round(11 * s, 10)

\* checkWeightIncrease(player)
checkWeightIncrease(pl) ==
  IF pl.totalFoodEaten >= pl.weight * pl.level
  THEN LET minStat == Min(Min(pl.collectionPower, pl.power), Min(pl.stamina, pl.defense))
           sumStats == Max(1, pl.collectionPower + pl.power + pl.stamina + pl.defense)
       IN  [pl EXCEPT !.weight = Ceil(pl.weight * 10 * sumStats + pl.weight * minStat, 10 * sumStats),
                      !.totalFoodEaten = 0]
  ELSE pl

\* requiredExp = ceil(255 + 255 * level * 0.1)
requiredExperience(level) == Ceil(2550 + 255 * level, 10)

\* the loop of checkLevelUp: requiredExp is computed once, before the loop
RECURSIVE levelUpLoop(_, _)
levelUpLoop(pl, requiredExp) ==
  IF pl.experience >= requiredExp
  THEN levelUpLoop([pl EXCEPT !.experience = @ - requiredExp, !.level = @ + 1,
                              !.availableUpgrades = @ + 1], requiredExp)
  ELSE pl

\* a level check that lets experience equal to the requirement stand
checkLevelUpAbove(pl) ==
  IF pl.experience > requiredExperience(pl.level)
  THEN levelUpLoop(pl, requiredExperience(pl.level))
  ELSE pl

\* checkLevelUp(player)
checkLevelUp(pl) == levelUpLoop(pl, requiredExperience(pl.level))

\* the amounts calculateCollectedAmount(luck, level) can return: 1 when every
\* probability is 0, otherwise any amount from 1 to 10, of which the model samples
\* the ends and the two amounts around the veteran's free capacity
SampledAmounts == {1, 5, 6, MaxAmount}
collectedAmounts(luck, level) ==
  IF luck * level <= 0 THEN {1} ELSE SampledAmounts


\* ---------------------------------------------------------------- state
VARIABLES
  cells,           \* the cells collection: key -> stored document
  players,         \* the player records (playersCache objects, saved whole)
  procs,           \* the handlers in flight: position and local variables
  nops,            \* handler invocations started so far
  stripUndefined,  \* the build: an undefined value in $set is dropped (TRUE) or stored as null
  saveTracksMixed, \* the build: save() persists an in-place change of playerProgress or not
  responses,       \* the outcomes returned to clients so far
  hist,            \* history of each cell's current ACTIVE period (observation only)
  store,           \* the players collection: what savePlayer has written
  gateway          \* the gateway: socketToPlayerId, onlinePlayers and one connection's closure

\* the build the server runs on
build == <<stripUndefined, saveTracksMixed>>
\* the gateway before a socket connects
NoGateway ==
  [socketToPlayerId |-> "", onlinePlayers |-> {}, connectionHandled |-> FALSE,
   restore |-> "off", timer |-> "off", created |-> {}, actedAs |-> {}]
vars == <<cells, players, procs, nops, build, responses, hist, store, gateway>>

\* the cells collection ---------------------------------------------------
AbsentCell ==
  [exists |-> FALSE, color |-> White, params |-> TerminalParams, health |-> None,
   playerProgress |-> <<>>, constructionPoints |-> 0, constructionType |-> None,
   buildingName |-> None, buildingId |-> None]

\* the document inserted by $setOnInsert
NewCell(color, params, health) ==
  [exists |-> TRUE, color |-> color, params |-> params, health |-> health,
   playerProgress |-> <<>>, constructionPoints |-> 0, constructionType |-> None,
   buildingName |-> None, buildingId |-> None]

\* playerProgress is an object: its entries in insertion order
ProgressOf(pp, id) ==
  IF \E n \in 1 .. Len(pp) : pp[n].k = id
  THEN pp[CHOOSE n \in 1 .. Len(pp) : pp[n].k = id].v
  ELSE 0
SetProgress(pp, id, v) ==
  IF \E n \in 1 .. Len(pp) : pp[n].k = id
  THEN [n \in 1 .. Len(pp) |-> IF pp[n].k = id THEN [k |-> id, v |-> v] ELSE pp[n]]
  ELSE Append(pp, [k |-> id, v |-> v])

\* what getCellColorInternal returns for the document it read
cellColorInternal(k) ==
  LET d == cells[k]
  IN  IF d.exists
      THEN [found |-> TRUE, params |-> d.params,
            color |-> IF d.color = White THEN White
                      ELSE IF Has(d.buildingName) THEN BuildingRed
                      ELSE paramsToColor(d.params, d.constructionPoints, d.constructionType)]
      ELSE [found |-> FALSE, params |-> generateCellParams(k),
            color |-> paramsToColor(generateCellParams(k), 0, None)]

\* findOneAndUpdate({key}, {$setOnInsert: doc}, {upsert: true})
\* an upsert that overwrites the stored document
setAlways(k, doc) ==
  [cells EXCEPT ![k] = doc]

setOnInsert(k, doc) ==
  IF cells[k].exists THEN cells ELSE [cells EXCEPT ![k] = doc]

\* getInventoryWeight(inventory), in whole units (Math.round of the total)
Count(inv, c) == IF c \in DOMAIN inv THEN inv[c] ELSE 0
EmptyInventory == [c \in {} |-> 0]
SetCount(inv, c, n) ==
  IF n = 0 THEN [x \in DOMAIN inv \ {c} |-> inv[x]]
  ELSE [x \in DOMAIN inv \cup {c} |-> IF x = c THEN n ELSE inv[x]]
RECURSIVE SumWeight32(_, _)
SumWeight32(inv, cs) ==
  IF cs = {} THEN 0
  ELSE LET c == CHOOSE x \in cs : TRUE
           hit == {k \in Cells : cells[k].exists /\ cells[k].color = c}
           w == IF inv[c] <= 0 THEN 0
                ELSE IF hit # {}
                THEN getItemWeightFromParams32(cells[CHOOSE k \in hit : TRUE].params, inv[c])
                ELSE getItemWeight32(c, inv[c])
       IN  w + SumWeight32(inv, cs \ {c})
getInventoryWeight(inv) == Round(SumWeight32(inv, DOMAIN inv), 32)

\* the player records -------------------------------------------------------
NewPlayer ==
  [satiety |-> InitialSatiety, weight |-> InitialWeight, stamina |-> 1,
   collectionPower |-> 1, power |-> 1, defense |-> 0, luck |-> 0, level |-> 1,
   availableUpgrades |-> 0, totalFoodEaten |-> 0, experience |-> 0,
   health |-> InitialHealth,
   maxHealth |-> InitialHealth, regeneration2 |-> 0, inventory |-> EmptyInventory,
   totalCollected |-> 0, unlockedColors |-> <<>>, buildings |-> EmptyInventory,
   position |-> K1]

\* the colour of the cell at K1 as generated
Olive == paramsToColor(generateCellParams(K1), 0, None)

\* a player who has spent upgrades on every stat and carries a part-filled inventory
Veteran ==
  [NewPlayer EXCEPT !.collectionPower = 20, !.power = 4, !.stamina = 4, !.defense = 1,
                    !.luck = 1, !.level = 29, !.availableUpgrades = 1,
                    !.inventory = SetCount(EmptyInventory, Olive, 66),
                    !.totalCollected = 440,
                    !.unlockedColors = <<Olive>> \o SubSeq(BASE_COLORS, 2, 21)]

\* a player who has spent upgrades on collection power only
Digger == [NewPlayer EXCEPT !.collectionPower = 24, !.level = 24]

\* the same player with almost no satiety left
Starved == [Digger EXCEPT !.satiety = 5]

\* the veteran with satiety for one tap and one tap short of the food threshold
\* weight * level at which the weight grows
Hungry == [Veteran EXCEPT !.satiety = 20, !.totalFoodEaten = 7390]


\* savePlayer(playerState): the whole record goes to the players collection
savePlayer(id, pl) == store' = [store EXCEPT ![id] = pl]

\* the handlers ---------------------------------------------------------------
\* the object a tap returns
NoResult ==
  [collected |-> FALSE, progress |-> 0, required |-> 0, color |-> 0, health |-> 0,
   winnerId |-> "", collectedAmount |-> 0, tapAmount |-> 0, insufficientInventory |-> FALSE,
   exploded |-> FALSE]

\* a handler's position and local variables
Idle ==
  [op |-> "idle", pc |-> "idle", player |-> "", cell |-> "", epoch |-> 0,
   ret |-> "", ret2 |-> "", ciColor |-> 0, ciParams |-> TerminalParams,
   color |-> 0, params |-> TerminalParams, health |-> 0,
   snapHealth |-> None, snapProgress |-> <<>>, cause |-> "", currentWeight |-> 0,
   foodCost |-> 0, currentProgress |-> 0, tapAmount |-> 0, winnerId |-> "",
   topPersisted |-> "", collectedAmount |-> 0, todo |-> {}, maxLevel |-> 0,
   dropColor |-> 0, dropCount |-> 0, currentCount |-> 0, isWhite |-> FALSE, points |-> 0, type |-> None,
   item |-> TerminalParams, useType |-> "", buildingName |-> "", buildingId |-> 0,
   structure |-> <<>>, affectedCells |-> <<>>, found |-> <<>>, center |-> "",
   positions |-> <<>>, result |-> NoResult]

\* the handlers in flight
InFlight == BagToSet(procs)
At(job, pc) == job.pc = pc
\* what the gateway sends back for a finished handler
Response(pr) == [op |-> pr.op, cause |-> pr.cause, result |-> pr.result]
\* the handler moves on; when it has returned its slot is free again and its
\* outcome is on the way to the client
Set(job, r) ==
  IF r.pc = "done"
  THEN /\ procs' = procs (-) SetToBag({job})
       /\ responses' = responses \cup {Response(r)}
  ELSE /\ procs' = (procs (-) SetToBag({job})) (+) SetToBag({r})
       /\ responses' = responses
Budget == nops < MaxOps
\* a new invocation is taken while fewer than MaxProcs handlers are in flight
Room == BagCardinality(procs) < MaxProcs
\* the handler returns with an outcome
Return(pr, cause, result) ==
  [Idle EXCEPT !.op = pr.op, !.pc = "done", !.cause = cause, !.result = result]

\* the observation of one cell's ACTIVE period (between materialization or
\* regeneration and the next regeneration)
NewPeriod(epoch, h0) ==
  [epoch |-> epoch, initialHealth |-> h0, applied |-> 0, inits |-> 0, resets |-> 0,
   collects |-> 0, rewards |-> 0, whitened |-> FALSE, built |-> FALSE, stale |-> FALSE,
   tappers |-> {}]

\* getCellColorInternal ----------------------------------------------------
\* its findOne; when the cell is absent the $setOnInsert upsert follows at pc "ci_upsert"
CiRead(job, pr, after) ==
  LET r == cellColorInternal(pr.cell)
  IN  Set(job, [pr EXCEPT !.ciColor = r.color, !.ciParams = r.params,
                        !.pc = IF r.found THEN after ELSE "ci_upsert",
                        !.ret = IF r.found THEN "" ELSE after])

\* the upsert of the generated cell, which carries no health
CiUpsert(job) ==
  /\ At(job, "ci_upsert")
  /\ LET pr == job
         fresh == ~cells[pr.cell].exists
     IN  /\ cells' = setOnInsert(pr.cell, NewCell(pr.ciColor, pr.ciParams, None))
         /\ hist' = IF fresh
                    THEN [hist EXCEPT ![pr.cell] =
                            NewPeriod(@.epoch, pr.ciParams.power * pr.ciParams.experience)]
                    ELSE hist
         /\ Set(job, [pr EXCEPT !.pc = pr.ret, !.ret = ""])
  /\ UNCHANGED <<players, nops, build, gateway, store>>

\* the result of getCellColorInternal goes out of scope
Forget(pr) == [pr EXCEPT !.ciColor = 0, !.ciParams = TerminalParams]

\* getOrInitCellHealth -----------------------------------------------------
\* entered by its getCellColorInternal; `after` is where the caller resumes
GiEnter(job, pr, after) == CiRead(job, [pr EXCEPT !.ret2 = after], "gi_upsert")

\* health = params.power * params.experience, then the upsert that returns the document
GiUpsert(job) ==
  /\ At(job, "gi_upsert")
  /\ LET pr == job
         k == pr.cell
         h == pr.ciParams.power * pr.ciParams.experience
         fresh == ~cells[k].exists
         doc == IF fresh THEN NewCell(pr.ciColor, pr.ciParams, Some(h)) ELSE cells[k]
     IN  /\ cells' = setOnInsert(k, doc)
         /\ hist' = IF fresh
                    THEN [hist EXCEPT ![k] = [NewPeriod(@.epoch, h) EXCEPT !.inits = 1]]
                    ELSE hist
         /\ IF Has(doc.health)
            THEN Set(job, [Forget(pr) EXCEPT !.health = Val(doc.health), !.pc = pr.ret2,
                                           !.ret2 = ""])
            ELSE Set(job, [Forget(pr) EXCEPT !.health = h, !.pc = "gi_save"])
  /\ UNCHANGED <<players, nops, build, gateway, store>>

\* the observation of a save() that initialises health
Initialised(k) ==
  [hist EXCEPT ![k].inits = @ + 1,
               ![k].resets = IF hist[k].applied > 0 THEN @ + 1 ELSE @]

\* cell.health = health; await cell.save(): only the health path is written
GiSave(job) ==
  /\ At(job, "gi_save")
  /\ LET pr == job
         k == pr.cell
     IN  /\ cells' = [cells EXCEPT ![k].health = Some(pr.health)]
         /\ hist' = Initialised(k)
         /\ Set(job, [pr EXCEPT !.pc = pr.ret2, !.ret2 = ""])
  /\ UNCHANGED <<players, nops, build, gateway, store>>

\* tapColorCell ----------------------------------------------------------------
\* getOrCreatePlayer (cached) and the findOne of getCellColorInternal
TapStart(p, k) ==
  /\ Room /\ Budget
  /\ CiRead(Idle, [Idle EXCEPT !.op = "tap", !.player = p, !.cell = k,
                            !.epoch = hist[k].epoch], "t_check")
  /\ nops' = nops + 1
  /\ UNCHANGED <<cells, players, build, gateway, hist, store>>

\* the white check and the collection-power check; then getInventoryWeight(player.inventory)
TapCheck(job) ==
  /\ At(job, "t_check")
  /\ LET pr == [job EXCEPT !.color = job.ciColor, !.params = job.ciParams]
         pl == players[pr.player]
     IN  IF pr.color = White
         THEN Set(job, Return(pr, "white", [NoResult EXCEPT !.color = White]))
         ELSE IF InsufficientPower(pl, pr.params.power)
         THEN GiEnter(job, [pr EXCEPT !.cause = "power"], "t_rej")
         ELSE Set(job, [Forget(pr) EXCEPT
                        !.currentWeight = getInventoryWeight(pl.inventory),
                        !.pc = "t_check2"])
  /\ UNCHANGED <<cells, players, nops, build, gateway, hist, store>>

\* currentWeight + minItemWeight > maxWeight, in 1/32 units
InsufficientInventory(pl, currentWeight, params) ==
  32 * currentWeight + getItemWeightFromParams32(params, 1)
    > 32 * getMaxInventoryWeight(pl.weight, pl.stamina)

\* the inventory check and the satiety check; then getOrInitCellHealth
TapCheck2(job) ==
  /\ At(job, "t_check2")
  /\ LET pr == [job EXCEPT !.currentWeight = 0]
         pl == players[pr.player]
         foodCost == tapFoodCost(pl)
     IN  IF InsufficientInventory(pl, job.currentWeight, pr.params)
         THEN GiEnter(job, [pr EXCEPT !.cause = "inventory"], "t_rej")
         ELSE IF pl.satiety < foodCost
         THEN GiEnter(job, [pr EXCEPT !.cause = "satiety"], "t_rej")
         ELSE GiEnter(job, [pr EXCEPT !.foodCost = foodCost], "t_upsert")
  /\ UNCHANGED <<cells, players, nops, build, gateway, hist, store>>

\* a rejected tap reads the cell once more and returns the current state
TapReject(job) ==
  /\ At(job, "t_rej")
  /\ LET pr == job
     IN  Set(job, Return(pr, pr.cause,
               [NoResult EXCEPT
                  !.progress = ProgressOf(cells[pr.cell].playerProgress, pr.player),
                  !.required = pr.health, !.color = pr.color, !.health = pr.health,
                  !.insufficientInventory = (pr.cause = "inventory")]))
  /\ UNCHANGED <<cells, players, nops, build, gateway, hist, store>>

\* the upsert that returns the document the tap works on
TapUpsert(job) ==
  /\ At(job, "t_upsert")
  /\ LET pr == job
         k == pr.cell
         fresh == ~cells[k].exists
         doc == IF fresh THEN NewCell(pr.color, pr.params, Some(pr.health)) ELSE cells[k]
     IN  /\ cells' = setOnInsert(k, doc)
         /\ hist' = IF fresh
                    THEN [hist EXCEPT ![k] = [NewPeriod(@.epoch, pr.health) EXCEPT !.inits = 1]]
                    ELSE hist
         /\ Set(job, [pr EXCEPT !.snapHealth = doc.health,
                              !.snapProgress = doc.playerProgress, !.pc = "t_after"])
  /\ UNCHANGED <<players, nops, build, gateway, store>>

\* the contributor the loop over Object.entries(cell.playerProgress) selects
winnerOf(pp) ==
  LET best == {n \in 1 .. Len(pp) :
                 /\ pp[n].v > 0
                 /\ \A m \in 1 .. Len(pp) : pp[m].v <= pp[n].v}
  IN  IF best # {} THEN pp[CHOOSE n \in best : \A m \in best : n <= m].k
      ELSE IF Len(pp) > 0 THEN pp[1].k
      ELSE ""

\* the debit of the player and the $set of progress and health
DoWrite(job) ==
  LET pr == job
      k == pr.cell
      p == pr.player
      debited == [players[p] EXCEPT !.satiety = Max(0, @ - pr.foodCost),
                                    !.totalFoodEaten = @ + pr.foodCost]
      pl == checkWeightIncrease(debited)
      tapAmount == pl.collectionPower
      currentProgress == ProgressOf(pr.snapProgress, p) + tapAmount
      newHealth == Val(pr.snapHealth) - tapAmount
      written == [cells[k] EXCEPT !.playerProgress = SetProgress(@, p, currentProgress),
                                  !.health = Some(newHealth)]
      same == pr.epoch = hist[k].epoch /\ ~hist[k].whitened
  IN  /\ players' = [players EXCEPT ![p] = pl]
      /\ cells' = [cells EXCEPT ![k] = IF cells[k].exists THEN written ELSE @]
      /\ hist' = IF same
                 THEN [hist EXCEPT ![k].applied = @ + tapAmount, ![k].tappers = @ \cup {p}]
                 ELSE [hist EXCEPT ![k].stale = TRUE, ![k].tappers = @ \cup {p}]
      /\ IF newHealth <= 0
         THEN /\ Set(job, [pr EXCEPT !.snapProgress = SetProgress(@, p, currentProgress),
                                   !.snapHealth = None, !.health = 0, !.foodCost = 0,
                                   !.currentProgress = currentProgress,
                                   !.tapAmount = tapAmount,
                                   !.topPersisted = winnerOf(written.playerProgress),
                                   !.pc = "t_collect"])
              /\ UNCHANGED store
         \* the cell is not collected: savePlayer(player) and the result
         ELSE /\ Set(job, Return(pr, "",
                      [NoResult EXCEPT !.progress = currentProgress, !.required = newHealth,
                                       !.color = pr.color, !.health = newHealth,
                                       !.tapAmount = tapAmount]))
              /\ savePlayer(p, pl)
      /\ UNCHANGED <<nops, build, gateway>>

\* a document that came back without health is initialised with save() first
TapAfterUpsert(job) ==
  /\ At(job, "t_after")
  /\ LET pr == job
         k == pr.cell
     IN  IF Has(pr.snapHealth)
         THEN DoWrite(job)
         ELSE /\ cells' = [cells EXCEPT ![k].health = Some(pr.health)]
              /\ hist' = Initialised(k)
              /\ Set(job, [pr EXCEPT !.snapHealth = Some(pr.health), !.pc = "t_write"])
              /\ UNCHANGED <<players, nops, build, gateway, store>>

TapWrite(job) == At(job, "t_write") /\ DoWrite(job)

\* health <= 0: the winner is taken from the handler's copy of the document, the
\* amount is sampled, and the winner's inventory weight is read
TapCollect(job) ==
  /\ At(job, "t_collect")
  /\ LET pr == job
         winnerId == winnerOf(pr.snapProgress)
         winner == players[winnerId]
     IN  \E amount \in collectedAmounts(winner.luck, winner.level) :
           Set(job, [pr EXCEPT !.winnerId = winnerId, !.collectedAmount = amount,
                             !.snapProgress = <<>>,
                             !.currentWeight = getInventoryWeight(winner.inventory),
                             !.pc = "t_reward"])
  /\ UNCHANGED <<cells, players, nops, build, gateway, hist, store>>

\* currentWeight + itemWeight > maxWeight, in 1/32 units
rewardTooHeavy(winner, currentWeight, params, amount) ==
  32 * currentWeight + getItemWeightFromParams32(params, amount)
    > 32 * getMaxInventoryWeight(winner.weight, winner.stamina)

\* the winner after the reward: inventory, unlockedColors, totalCollected
grantReward(winner, color, amount) ==
  LET hasColor == Count(winner.inventory, color) > 0
      unlocked1 == IF ~hasColor /\ ~\E n \in 1 .. Len(winner.unlockedColors) :
                                      winner.unlockedColors[n] = color
                   THEN Append(winner.unlockedColors, color)
                   ELSE winner.unlockedColors
      total == winner.totalCollected + amount
      currentColors == Len(unlocked1)
      hasNext == currentColors < Len(BASE_COLORS)
      nextColor == BASE_COLORS[currentColors + 1]
      unlocked2 == IF /\ hasNext
                      /\ total >= currentColors * currentColors
                      /\ ~\E n \in 1 .. Len(unlocked1) : unlocked1[n] = nextColor
                   THEN Append(unlocked1, nextColor)
                   ELSE unlocked1
  IN  [winner EXCEPT !.inventory = SetCount(@, color, Count(@, color) + amount),
                     !.totalCollected = total,
                     !.unlockedColors = unlocked2]

\* the $set that makes the cell white; an undefined health is dropped or stored as null
whiteCell(doc) ==
  [doc EXCEPT !.color = White,
              !.health = IF stripUndefined THEN @ ELSE None,
              !.playerProgress = <<>>,
              !.params = TerminalParams,
              !.constructionPoints = 0]

\* the white write, savePlayer(player) and the return of a collecting tap
WhiteWrite(job, pr) ==
  LET k == pr.cell
      same == pr.epoch = hist[k].epoch
  IN  /\ cells' = [cells EXCEPT ![k] = IF @.exists THEN whiteCell(@) ELSE @]
      /\ savePlayer(pr.player, players[pr.player])
      /\ hist' = [hist EXCEPT ![k].whitened = TRUE,
                              ![k].built = FALSE,
                              ![k].collects = IF same THEN @ + 1 ELSE @,
                              ![k].stale = IF same THEN @ ELSE TRUE]
      /\ Set(job, Return(pr, "",
               [NoResult EXCEPT !.collected = TRUE, !.progress = pr.currentProgress,
                                !.color = White, !.winnerId = pr.winnerId,
                                !.collectedAmount = pr.collectedAmount,
                                !.tapAmount = pr.tapAmount]))

\* the weight check: the reward is dropped (and the cell made white at once), or it is
\* credited to the winner and saved
TapReward(job) ==
  /\ At(job, "t_reward")
  /\ LET pr == job
         k == pr.cell
         winner == players[pr.winnerId]
     IN  IF rewardTooHeavy(winner, pr.currentWeight, pr.params, pr.collectedAmount)
         THEN /\ WhiteWrite(job, [pr EXCEPT !.collectedAmount = 0])
              /\ UNCHANGED players
         ELSE /\ players' = [players EXCEPT ![pr.winnerId] =
                               grantReward(winner, pr.color, pr.collectedAmount)]
              /\ savePlayer(pr.winnerId, grantReward(winner, pr.color, pr.collectedAmount))
              /\ hist' = IF pr.epoch = hist[k].epoch
                         THEN [hist EXCEPT ![k].rewards = @ + 1]
                         ELSE hist
              /\ Set(job, [pr EXCEPT !.currentWeight = 0, !.pc = "t_white"])
              /\ UNCHANGED cells
  /\ UNCHANGED <<nops, build, gateway>>

TapWhite(job) ==
  /\ At(job, "t_white")
  /\ WhiteWrite(job, job)
  /\ UNCHANGED <<players, nops, build, gateway>>

\* regenerateWhiteCells (cron) ---------------------------------------------------
\* playerModel.find(): the highest level among the players
SweepStart ==
  /\ Room /\ Budget
  /\ LET maxLevel == CHOOSE l \in {store[p].level : p \in Players} :
                       \A q \in Players : store[q].level <= l
     IN  Set(Idle, [Idle EXCEPT !.op = "sweep", !.pc = "sw_find", !.maxLevel = maxLevel])
  /\ nops' = nops + 1
  /\ UNCHANGED <<cells, players, build, gateway, hist, store>>

\* cellModel.find({color: '#ffffff'}); each white cell is selected with probability 0.5
SweepFind(job) ==
  /\ At(job, "sw_find")
  /\ LET pr == job
         whiteCells == {k \in Cells : cells[k].exists /\ cells[k].color = White}
     IN  \E cellsToRegenerate \in SUBSET whiteCells :
           IF cellsToRegenerate = {}
           THEN Set(job, Return(pr, "", NoResult))
           ELSE Set(job, [pr EXCEPT !.todo = cellsToRegenerate, !.pc = "sw_write"])
  /\ UNCHANGED <<cells, players, nops, build, gateway, hist, store>>

\* the $set that regenerates one selected cell
regeneratedCell(doc, params) ==
  [doc EXCEPT !.color = paramsToColor(params, 0, None),
              !.params = params,
              !.health = Some(params.power * params.experience),
              !.playerProgress = <<>>,
              !.constructionPoints = 0,
              !.constructionType = IF stripUndefined THEN @ ELSE None,
              !.buildingName = IF stripUndefined THEN @ ELSE None,
              !.buildingId = IF stripUndefined THEN @ ELSE None]

SweepWrite(job) ==
  /\ At(job, "sw_write")
  /\ LET pr == job
     IN  \E k \in pr.todo :
           LET params == generateCellParamsWithMinPower(k, pr.maxLevel)
               rest == pr.todo \ {k}
           IN  /\ cells' = [cells EXCEPT ![k] = regeneratedCell(@, params)]
               /\ hist' = [hist EXCEPT ![k] =
                             [NewPeriod(@.epoch + 1, params.power * params.experience)
                                EXCEPT !.inits = 1]]
               /\ IF rest = {}
                  THEN Set(job, Return(pr, "", NoResult))
                  ELSE Set(job, [pr EXCEPT !.todo = rest])
  /\ UNCHANGED <<players, nops, build, gateway, store>>

\* dropInventoryOnCell -------------------------------------------------------------
\* the cell under the player is read
DropStart(p, color, count) ==
  /\ Room /\ Budget
  /\ LET k == players[p].position
         cell == cells[k]
     IN  Set(Idle, [Idle EXCEPT !.op = "drop", !.pc = "d_check", !.player = p, !.cell = k,
                             !.dropColor = color, !.dropCount = count,
                             !.isWhite = (~cell.exists \/ cell.color = White),
                             !.points = cell.constructionPoints,
                             !.type = cell.constructionType])
  /\ nops' = nops + 1
  /\ UNCHANGED <<cells, players, build, gateway, hist, store>>

\* the parameters of the dropped item: a cell of that colour, or the colour itself
itemParams(color) ==
  LET hit == {k \in Cells : cells[k].exists /\ cells[k].color = color}
  IN  IF hit # {} THEN cells[CHOOSE k \in hit : TRUE].params
      ELSE Params(Green(color), Red(color), Blue(color), 1)

\* the target and inventory checks; then the lookup of a cell of the item's colour
DropCheck(job) ==
  /\ At(job, "d_check")
  /\ LET pr == job
         currentCount == Count(players[pr.player].inventory, pr.dropColor)
     IN  IF ~pr.isWhite /\ ~(pr.points > 0)
         THEN Set(job, Return(pr, "target", NoResult))
         ELSE IF currentCount < pr.dropCount
         THEN Set(job, Return(pr, "count", NoResult))
         ELSE Set(job, [pr EXCEPT !.currentCount = currentCount,
                                !.item = itemParams(pr.dropColor), !.pc = "d_apply"])
  /\ UNCHANGED <<cells, players, nops, build, gateway, hist, store>>

\* a type check that rejects only an item of a higher type than the cell's
typeMismatchAbove(points, type, itemType) ==
  points > 0 /\ Has(type) /\ itemType > Val(type)

\* the cell holds construction material of a type, and the item's type is another one
typeMismatch(points, type, itemType) ==
  points > 0 /\ Has(type) /\ itemType # Val(type)

\* the type check, the new construction points, the inventory debit and savePlayer
DropApply(job) ==
  /\ At(job, "d_apply")
  /\ LET pr == job
         itemConstructionType == Ceil(pr.item.experience, 10)
         pointsToAdd == Max(0, pr.item.building - pr.item.experience) * pr.dropCount
         newType == IF pr.isWhite THEN Some(itemConstructionType) ELSE pr.type
     IN  IF typeMismatch(pr.points, pr.type, itemConstructionType)
         THEN Set(job, Return(pr, "type", NoResult)) /\ UNCHANGED <<players, store>>
         ELSE IF ~Has(newType)
         THEN Set(job, Return(pr, "type", NoResult)) /\ UNCHANGED <<players, store>>
         ELSE /\ players' = [players EXCEPT ![pr.player].inventory =
                               SetCount(@, pr.dropColor, pr.currentCount - pr.dropCount)]
              /\ savePlayer(pr.player, players'[pr.player])
              /\ Set(job, [pr EXCEPT !.type = newType,
                                   !.points = Min(Val(newType) * 255, pr.points + pointsToAdd),
                                   !.pc = "d_write"])
  /\ UNCHANGED <<cells, nops, build, gateway, hist>>

\* the $set (upsert) that turns the cell into construction material
builtCell(doc, points, type) ==
  LET newParams == Params(0, points, 0, GrayPower)
  IN  [doc EXCEPT !.exists = TRUE,
                  !.color = paramsToColor(newParams, points, type),
                  !.params = newParams,
                  !.health = Some(points * 10),
                  !.constructionPoints = points,
                  !.constructionType = type]

DropWrite(job) ==
  /\ At(job, "d_write")
  /\ LET pr == job
         k == pr.cell
     IN  /\ cells' = [cells EXCEPT ![k] = builtCell(@, pr.points, pr.type)]
         /\ hist' = [hist EXCEPT ![k].built = TRUE]
         /\ Set(job, Return(pr, "", NoResult))
  /\ UNCHANGED <<players, nops, build, gateway, store>>

\* ------------------------------------------------------- the specification
\* the colours and amounts a client asks to drop
DropColors == {Olive}
DropCounts == {1}

\* the players that are connected: a veteran with a digger, or a new player with a
\* starved one
Worlds ==
  { [p \in Players |-> IF p = "p1" THEN Veteran ELSE Digger],
    [p \in Players |-> IF p = "p1" THEN NewPlayer ELSE Starved] }

Init ==
  /\ cells = [k \in Cells |-> AbsentCell]
  /\ players \in Worlds
  /\ procs = EmptyBag
  /\ nops = 0
  /\ gateway = NoGateway
  /\ stripUndefined \in BOOLEAN
  /\ saveTracksMixed = FALSE
  /\ store = players
  /\ responses = {}
  /\ hist = [k \in Cells |-> NewPeriod(0, 0)]

Next ==
  \/ \E p \in Players, k \in Targets \cup {K7} : TapStart(p, k)
  \/ \E job \in InFlight : CiUpsert(job)
  \/ \E job \in InFlight : GiUpsert(job)
  \/ \E job \in InFlight : GiSave(job)
  \/ \E job \in InFlight : TapCheck(job)
  \/ \E job \in InFlight : TapCheck2(job)
  \/ \E job \in InFlight : TapReject(job)
  \/ \E job \in InFlight : TapUpsert(job)
  \/ \E job \in InFlight : TapAfterUpsert(job)
  \/ \E job \in InFlight : TapWrite(job)
  \/ \E job \in InFlight : TapCollect(job)
  \/ \E job \in InFlight : TapReward(job)
  \/ \E job \in InFlight : TapWhite(job)
  \/ SweepStart
  \/ \E job \in InFlight : SweepFind(job)
  \/ \E job \in InFlight : SweepWrite(job)
  \/ \E p \in Players, c \in DropColors, n \in DropCounts : DropStart(p, c, n)
  \/ \E job \in InFlight : DropCheck(job)
  \/ \E job \in InFlight : DropApply(job)
  \/ \E job \in InFlight : DropWrite(job)

Spec == Init /\ [][Next]_vars

\* ------------------------------------------------------------ properties
Rejections == {"power", "inventory", "satiety"}
TapInFlight(k) == \E job \in InFlight : job.op = "tap" /\ job.cell = k
\* handler i takes the step that leaves position pc
StepAt(job, pc) == job.pc = pc /\ CopiesIn(job, procs') < CopiesIn(job, procs)
\* the health a cell has: the stored one, or power * experience while none is stored
effectiveHealth(k) ==
  LET d == cells[k]
      params == IF d.exists THEN d.params ELSE generateCellParams(k)
  IN  IF d.exists /\ Has(d.health) THEN Val(d.health)
      ELSE params.power * params.experience

\* C1: when the accepted taps of a period are all finished and their amounts sum to
\* less than the initial health, the stored health is the initial health minus that
\* sum (the period's health was initialised once, never reset, and no handler of
\* another period wrote to the cell).
C1_ExactDecrement ==
  \A k \in Cells :
    ( /\ cells[k].exists /\ ~TapInFlight(k)
      /\ hist[k].inits = 1 /\ hist[k].resets = 0
      /\ ~hist[k].whitened /\ ~hist[k].built /\ ~hist[k].stale
      /\ hist[k].applied > 0
      /\ hist[k].applied < hist[k].initialHealth )
    => cells[k].health = Some(hist[k].initialHealth - hist[k].applied)

\* C2: within one ACTIVE period of a cell at most one tap collects it (returns
\* collected = true) and at most one reward is credited.
C2_SingleCollection ==
  \A k \in Cells : hist[k].collects <= 1 /\ hist[k].rewards <= 1

\* C5: within one period a cell's health is initialised at most once, and no
\* initialisation happens after a tap's damage has been persisted.
C5_InitialisedOnce ==
  \A k \in Cells : hist[k].inits <= 1 /\ hist[k].resets = 0

\* C6: no step of a tap that has been rejected (for power, inventory or satiety)
\* changes a player or the cell's health or playerProgress; a tap rejected because
\* the cell is white returns at once.
C6_RejectedTapMutatesNothing ==
  [][\A job \in InFlight, k \in Cells :
       ( /\ job.op = "tap" /\ job.cell = k /\ job.cause \in Rejections
         /\ CopiesIn(job, procs') < CopiesIn(job, procs) )
       => /\ players' = players
          /\ effectiveHealth(k)' = effectiveHealth(k)
          /\ cells'[k].playerProgress = cells[k].playerProgress]_vars

\* what a tap's outcome says beyond the echo of the cell's state
reasonOf(result) ==
  [collected |-> result.collected, tapAmount |-> result.tapAmount,
   insufficientInventory |-> result.insufficientInventory,
   winnerId |-> result.winnerId, collectedAmount |-> result.collectedAmount]

\* C8: two taps rejected for different causes (power, inventory, satiety) return
\* outcomes that differ in what they say about the rejection.
C8_DistinctReasons ==
  \A r1, r2 \in responses :
    ( /\ r1.op = "tap" /\ r1.cause \in Rejections
      /\ r2.op = "tap" /\ r2.cause \in Rejections
      /\ r1.cause # r2.cause )
    => reasonOf(r1.result) # reasonOf(r2.result)

\* C9: the winner a collecting tap names is the contributor with the highest
\* progress persisted on the cell when the tap's write brought the health to <= 0,
\* the earliest contributor among equals.
C9_WinnerIsTopPersisted ==
  \A job \in InFlight :
    (job.op = "tap" /\ job.pc \in {"t_reward", "t_white"})
    => job.winnerId = job.topPersisted

\* the winner's inventory as it is now, with the sampled amount added, exceeds the
\* limit; items of the cell's colour are weighed with the cell's params (as the
\* handler weighs the reward), the other items as getInventoryWeight weighs them
tooHeavyNow(job) ==
  LET winner == players[job.winnerId]
      inv == winner.inventory
      others == [c \in DOMAIN inv \ {job.color} |-> inv[c]]
      held32 == getItemWeightFromParams32(job.params, Count(inv, job.color))
                  + SumWeight32(others, DOMAIN others)
  IN  32 * Round(held32, 32) + getItemWeightFromParams32(job.params, job.collectedAmount)
        > 32 * getMaxInventoryWeight(winner.weight, winner.stamina)

\* C10: when a collecting tap decides on the reward and the winner's inventory with
\* the sampled amount would exceed the limit, nothing is credited (inventory,
\* totalCollected and unlockedColors stay) and the cell is made terminal white.
C10_TooHeavyRewardDropped ==
  [][\A job \in InFlight :
       (StepAt(job, "t_reward") /\ tooHeavyNow(job))
       => /\ players'[job.winnerId] = players[job.winnerId]
          /\ cells'[job.cell].color = White
          /\ cells'[job.cell].params = TerminalParams]_vars

\* a stored cell's colour goes from white to another colour in this step
Recoloured(k) == cells[k].exists /\ cells[k].color = White /\ cells'[k].color # White
\* a cell that is absent or not white is white after this step
Whitened(k) == (~cells[k].exists \/ cells[k].color # White)
                 /\ cells'[k].exists /\ cells'[k].color = White
\* the step is the sweep's regeneration write
SweepStep == \E job \in InFlight : StepAt(job, "sw_write")
\* the step is the construction write of a drop on cell k
DropStep(k) == \E job \in InFlight : StepAt(job, "d_write") /\ job.cell = k
\* the step is the terminal write of a collecting tap of cell k
CollectStep(k) ==
  \E job \in InFlight : /\ job.op = "tap" /\ job.cell = k
                        /\ (StepAt(job, "t_reward") \/ StepAt(job, "t_white"))

CollectionPowers == {1, 3, 10}

\* a player after upgrades: one level per upgrade spent
Upgraded(cp, pw, st, df) ==
  [NewPlayer EXCEPT !.collectionPower = cp, !.power = pw, !.stamina = st, !.defense = df,
                    !.level = 1 + (cp - 1) + (pw - 1) + (st - 1) + df]

\* the stored cell at K1 with a given power
StoredCell(power) ==
  LET params == [generateCellParams(K1) EXCEPT !.power = power]
  IN  NewCell(paramsToColor(params, 0, None), params, Some(params.power * params.experience))

InitElig ==
  /\ \E power \in 1 .. MaxCellPower :
       cells = [k \in Cells |-> IF k = K1 THEN StoredCell(power) ELSE AbsentCell]
  /\ \E cp \in CollectionPowers, pw \in 1 .. MaxStat, st \in 1 .. MaxStat, df \in 0 .. MaxStat :
       players = [p \in Players |-> IF p = "p1" THEN Upgraded(cp, pw, st, df) ELSE NewPlayer]
  /\ procs = EmptyBag
  /\ nops = 0
  /\ gateway = NoGateway
  /\ stripUndefined \in BOOLEAN
  /\ saveTracksMixed = FALSE
  /\ store = players
  /\ responses = {}
  /\ hist = [k \in Cells |-> NewPeriod(0, 0)]

\* a tap of the stored cell up to its power check
NextElig ==
  \/ \E p \in Players : TapStart(p, K1)
  \/ \E job \in InFlight : TapCheck(job)

SpecElig == InitElig /\ [][NextElig]_vars

\* cellPower <= max(1, collectionPower * max(0.1, power/2 + stamina/2 - defense)), with
\* the multiplier's two cases apart: it is a multiple of 1/2, so it is the floor 0.1
\* exactly when power + stamina - 2 * defense <= 0
WithinBound(pl, cellPower) ==
  LET twice == pl.power + pl.stamina - 2 * pl.defense
  IN  \/ cellPower <= 1
      \/ twice >= 1 /\ 2 * cellPower <= pl.collectionPower * twice
      \/ twice <= 0 /\ 10 * cellPower <= pl.collectionPower

\* the player of the example: collectionPower 10, power 4, stamina 4, defense 1
Example(pl) ==
  pl.collectionPower = 10 /\ pl.power = 4 /\ pl.stamina = 4 /\ pl.defense = 1

\* a tap that is past its power check
PastPowerCheck(job) == job.op = "tap" /\ job.pc # "t_check"

MovePlayer(p, k) ==
  /\ Budget
  /\ LET pl == players[p]
         cost == moveCost(pl)
     IN  IF pl.position = k
         THEN UNCHANGED <<players, store>>
         ELSE IF pl.satiety < cost
         THEN UNCHANGED <<players, store>>
         ELSE /\ players' = [players EXCEPT ![p].satiety = Max(0, pl.satiety - cost),
                                            ![p].position = k]
              /\ savePlayer(p, players'[p])
  /\ nops' = nops + 1
  /\ UNCHANGED <<cells, procs, build, gateway, responses, hist>>

\* the outcome of attackPlayer: success is an empty cause
Attacked(cause) == Response(Return([Idle EXCEPT !.op = "attack"], cause, NoResult))

\* an attack whose damage the target's defense reduces
AttackPlayerDefended(attackerId, targetId) ==
  /\ Budget
  /\ IF attackerId = targetId
     THEN /\ responses' = responses \cup {Attacked("self")}
          /\ UNCHANGED <<players, store>>
     ELSE LET damage == Max(0, players[attackerId].power - players[targetId].defense)
          IN  /\ players' = [players EXCEPT ![targetId].satiety = Max(0, @ - damage)]
              /\ savePlayer(targetId, players'[targetId])
              /\ responses' = responses \cup {Attacked("")}
  /\ nops' = nops + 1
  /\ UNCHANGED <<cells, procs, build, gateway, hist>>

\* attackPlayer(attackerId, targetId)
AttackPlayer(attackerId, targetId) ==
  /\ Budget
  /\ IF attackerId = targetId
     THEN /\ responses' = responses \cup {Attacked("self")}
          /\ UNCHANGED <<players, store>>
     ELSE LET damage == players[attackerId].power
          IN  /\ players' = [players EXCEPT ![targetId].satiety = Max(0, @ - damage)]
              /\ savePlayer(targetId, players'[targetId])
              /\ responses' = responses \cup {Attacked("")}
  /\ nops' = nops + 1
  /\ UNCHANGED <<cells, procs, build, gateway, hist>>

UpgradeTypes ==
  {"weight", "stamina", "collectionPower", "power", "maxHealth", "defense", "luck",
   "regeneration"}

\* a switch that raises the stamina whatever the upgradeType
upgradedStamina(pl, upgradeType) ==
  IF upgradeType \in UpgradeTypes THEN [pl EXCEPT !.stamina = @ + 1] ELSE pl

\* the player after the switch on upgradeType
upgraded(pl, upgradeType) ==
  CASE upgradeType = "weight" ->
         [pl EXCEPT !.weight = upgradedWeight(@), !.satiety = upgradedSatiety(@)]
    [] upgradeType = "stamina" -> [pl EXCEPT !.stamina = @ + 1]
    [] upgradeType = "collectionPower" -> [pl EXCEPT !.collectionPower = @ + 1]
    [] upgradeType = "power" -> [pl EXCEPT !.power = @ + 1]
    [] upgradeType = "maxHealth" ->
         [pl EXCEPT !.maxHealth = Round(12 * @, 10), !.health = Round(12 * @, 10)]
    [] upgradeType = "defense" -> [pl EXCEPT !.defense = @ + 1]
    [] upgradeType = "luck" -> [pl EXCEPT !.luck = @ + 1]
    [] upgradeType = "regeneration" -> [pl EXCEPT !.regeneration2 = @ + 1]

\* applyUpgrade(clientId, upgradeType)
ApplyUpgrade(p, upgradeType) ==
  /\ Budget
  /\ IF players[p].availableUpgrades <= 0
     THEN UNCHANGED <<players, store>>
     ELSE /\ players' = [players EXCEPT ![p] =
                           [upgraded(@, upgradeType) EXCEPT !.availableUpgrades = @ - 1]]
          /\ savePlayer(p, players'[p])
  /\ nops' = nops + 1
  /\ UNCHANGED <<cells, procs, build, gateway, responses, hist>>

\* a veteran with an upgrade to spend, full or hungry, and a new player
InitPlayer ==
  /\ cells = [k \in Cells |-> AbsentCell]
  /\ players \in { [p \in Players |-> IF p = "p1" THEN a ELSE NewPlayer] :
                     a \in {Veteran, Hungry} }
  /\ procs = EmptyBag
  /\ nops = 0
  /\ gateway = NoGateway
  /\ stripUndefined \in BOOLEAN
  /\ saveTracksMixed = FALSE
  /\ store = players
  /\ responses = {}
  /\ hist = [k \in Cells |-> NewPeriod(0, 0)]

NextPlayer ==
  \/ \E p \in Players, k \in Targets : MovePlayer(p, k)
  \/ \E a \in Players, t \in Players : AttackPlayer(a, t)
  \/ \E p \in Players, u \in UpgradeTypes : ApplyUpgrade(p, u)
  \/ \E p \in Players, k \in Targets : TapStart(p, k)
  \/ \E job \in InFlight : CiUpsert(job)
  \/ \E job \in InFlight : GiUpsert(job)
  \/ \E job \in InFlight : GiSave(job)
  \/ \E job \in InFlight : TapCheck(job)
  \/ \E job \in InFlight : TapCheck2(job)
  \/ \E job \in InFlight : TapReject(job)
  \/ \E job \in InFlight : TapUpsert(job)
  \/ \E job \in InFlight : TapAfterUpsert(job)
  \/ \E job \in InFlight : TapWrite(job)
  \/ \E job \in InFlight : TapCollect(job)
  \/ \E job \in InFlight : TapReward(job)
  \/ \E job \in InFlight : TapWhite(job)

SpecPlayer == InitPlayer /\ [][NextPlayer]_vars

\* C3: every player's satiety is at least 0 and at most the player's weight, after any
\* moves, attacks, upgrades and taps.
C3_SatietyWithinWeight ==
  \A p \in Players : 0 <= players[p].satiety /\ players[p].satiety <= players[p].weight

\* a player has spent an upgrade on weight, which rescaled a full satiety with it
C3_Witness ==
  \E p \in Players : /\ players[p].weight = upgradedWeight(InitialWeight)
                     /\ players[p].satiety = upgradedSatiety(InitialSatiety)
                     /\ players[p].availableUpgrades = 0

\* ----------------------------------------------------- the inventory's weight
\* C11: when a tap credits items to the winner, the winner's inventory weight right
\* after the credit is at most getMaxInventoryWeight(weight, stamina).
C11_WeightWithinLimitAfterGrant ==
  [][\A job \in InFlight :
       (StepAt(job, "t_reward")
          /\ players'[job.winnerId].inventory # players[job.winnerId].inventory)
       => LET winner == players'[job.winnerId]
          IN  getInventoryWeight(winner.inventory)
                <= getMaxInventoryWeight(winner.weight, winner.stamina)]_vars

\* ------------------------------------------------------------ useInventoryItem
\* getOrCreatePlayer (cached), the count check, and the lookup of a cell of the
\* item's colour
UseStart(p, color, useType) ==
  /\ Room /\ Budget
  /\ LET count == Count(players[p].inventory, color)
         pr == [Idle EXCEPT !.op = "use", !.player = p, !.dropColor = color,
                            !.useType = useType]
     IN  IF count <= 0
         THEN Set(Idle, Return(pr, "count", NoResult))
         ELSE Set(Idle, [pr EXCEPT !.currentCount = count, !.item = itemParams(color),
                                   !.pc = "u_apply"])
  /\ nops' = nops + 1
  /\ UNCHANGED <<cells, players, build, gateway, hist, store>>

\* the player after eating the item: satiety up to weight, totalFoodEaten, the weight check
eaten(pl, item) ==
  checkWeightIncrease([pl EXCEPT !.satiety = Min(pl.weight, pl.satiety + item.food),
                                 !.totalFoodEaten = @ + item.food])

\* the player after studying the item: experience, the level check
studied(pl, item) ==
  checkLevelUp([pl EXCEPT !.experience = @ + item.experience])

\* satiety or experience from the item, the inventory debit and savePlayer
UseApply(job) ==
  /\ At(job, "u_apply")
  /\ LET pr == job
         p == pr.player
         pl == players[p]
         used == IF pr.useType = "satiety" THEN eaten(pl, pr.item) ELSE studied(pl, pr.item)
         after == [used EXCEPT !.inventory = SetCount(@, pr.dropColor, pr.currentCount - 1)]
     IN  IF pr.useType = "satiety" /\ pl.satiety >= pl.weight
         THEN Set(job, Return(pr, "full", NoResult)) /\ UNCHANGED <<players, store>>
         ELSE /\ players' = [players EXCEPT ![p] = after]
              /\ savePlayer(p, after)
              /\ Set(job, Return(pr, "", NoResult))
  /\ UNCHANGED <<cells, nops, build, gateway, hist>>

\* the colour of the cell at K3 as generated
Clay == paramsToColor(generateCellParams(K3), 0, None)

\* the highest level of a player drawn for item use
MaxLevel == 3

\* a player who has gained levels and spent no upgrade, with two items of each colour
Levelled(level, experience) ==
  [NewPlayer EXCEPT !.level = level, !.availableUpgrades = level - 1,
                    !.experience = experience,
                    !.inventory = SetCount(SetCount(EmptyInventory, Olive, 2), Clay, 2),
                    !.totalCollected = 4, !.unlockedColors = <<Olive, Clay>>]

\* the same player at level 1 who has eaten and spent part of it
Peckish(satiety, totalFoodEaten) ==
  [Levelled(1, 0) EXCEPT !.satiety = satiety, !.totalFoodEaten = totalFoodEaten]

\* the experiences drawn for a level: none, and those from which the items of the
\* model (experience 20 by the cell's params, 107 and 114 by the colour) do or do not
\* reach the next level
Experiences(level) ==
  LET r == requiredExperience(level)
  IN  {0, r - 115, r - 114, r - 108, r - 107, r - 21, r - 20, r - 1}

InitUse ==
  /\ \E stored \in SUBSET {K1, K3} :
       cells = [k \in Cells |->
                  IF k \in stored
                  THEN NewCell(paramsToColor(generateCellParams(k), 0, None),
                               generateCellParams(k), None)
                  ELSE AbsentCell]
  /\ \E pl \in UNION {{Levelled(l, e) : e \in Experiences(l)} : l \in 1 .. MaxLevel}
                 \cup {Peckish(200, 225), Peckish(200, 224), Peckish(255, 225)} :
       players = [p \in Players |-> IF p = "p1" THEN pl ELSE NewPlayer]
  /\ procs = EmptyBag
  /\ nops = 0
  /\ gateway = NoGateway
  /\ stripUndefined \in BOOLEAN
  /\ saveTracksMixed = FALSE
  /\ responses = {}
  /\ hist = [k \in Cells |-> NewPeriod(0, 0)]
  /\ store = players

NextUse ==
  \/ \E p \in Players, c \in {Olive, Clay}, u \in {"satiety", "experience"} : UseStart(p, c, u)
  \/ \E job \in InFlight : UseApply(job)

SpecUse == InitUse /\ [][NextUse]_vars

C13_FirstWeightIncrease ==
  [][\A job \in InFlight :
       LET pl == players[job.player]
       IN  (/\ StepAt(job, "u_apply") /\ job.useType = "satiety"
            /\ pl.weight = InitialWeight /\ pl.level = 1
            /\ pl.collectionPower = 1 /\ pl.power = 1 /\ pl.stamina = 1 /\ pl.defense = 0
            /\ pl.satiety < pl.weight
            /\ pl.totalFoodEaten + job.item.food = 255)
           => /\ players'[job.player].weight > 255
              /\ players'[job.player].totalFoodEaten = 0]_vars


\* ---------------------------------------------------------------- buildBuilding
\* the buildings of initializeBuildings: a wall ('Стена') of one cell and a house
\* ('Дом') of four; every cell needs at least 400 points of a type from 2 to 5
Wall == "Wall"
House == "House"
Offset(x, y) == [x |-> x, y |-> y, a |-> 400, t |-> {2, 3, 4, 5}]
Buildings ==
  (Wall :> [structure |-> <<Offset(0, 0)>>, cellPower |-> 16, cellHealth |-> 1000])
  @@ (House :> [structure |-> <<Offset(0, 0), Offset(1, 0), Offset(0, 1), Offset(1, 1)>>,
                cellPower |-> 16, cellHealth |-> 1000])

\* the key `${x}:${y}`; the model keeps every cell a building started at 0:0 covers
KeyAt(x, y) == CHOOSE k \in Cells : Xs[k] = x /\ Ys[k] = y

\* getOrCreatePlayer (cached) and the lookup of the building by its name
BuildStart(p, buildingName) ==
  /\ Room /\ Budget
  /\ LET pr == [Idle EXCEPT !.op = "build", !.player = p, !.buildingName = buildingName]
     IN  IF buildingName \notin DOMAIN Buildings
         THEN Set(Idle, Return(pr, "building", NoResult))
         ELSE Set(Idle, [pr EXCEPT !.pc = "b_check", !.cell = players[p].position,
                                   !.buildingId = nops + 1,
                                   !.structure = Buildings[buildingName].structure])
  /\ nops' = nops + 1
  /\ UNCHANGED <<cells, players, build, gateway, hist, store>>

\* why the cell read for an offset does not pass, "" when it passes
offsetFailure(cell, struct, buildingName) ==
  IF ~cell.exists THEN "missing"
  ELSE IF cell.constructionPoints = 0 THEN "material"
  ELSE IF ~Has(cell.constructionType) \/ Val(cell.constructionType) \notin struct.t
  THEN "type"
  ELSE IF cell.constructionPoints < struct.a THEN "points"
  ELSE IF Has(cell.buildingName) /\ Val(cell.buildingName) # buildingName THEN "built"
  ELSE ""

\* the findOne of the next offset's cell and its checks
BuildCheck(job) ==
  /\ At(job, "b_check")
  /\ LET pr == job
         struct == Head(pr.structure)
         key == KeyAt(Xs[pr.cell] + struct.x, Ys[pr.cell] + struct.y)
         failure == offsetFailure(cells[key], struct, pr.buildingName)
     IN  IF failure # ""
         THEN Set(job, Return(pr, failure, NoResult))
         ELSE Set(job, [pr EXCEPT !.structure = Tail(@),
                                  !.affectedCells = Append(@, key),
                                  !.pc = IF Len(pr.structure) = 1 THEN "b_write"
                                         ELSE "b_check"])
  /\ UNCHANGED <<cells, players, nops, build, gateway, hist, store>>

\* the $set that makes a cell part of the building (no upsert)
buildingCell(doc, building, buildingName, buildingId) ==
  [doc EXCEPT !.color = BuildingRed,
              !.params = [@ EXCEPT !.power = building.cellPower],
              !.health = Some(building.cellHealth),
              !.buildingName = Some(buildingName),
              !.buildingId = Some(buildingId)]

\* the findOneAndUpdate of the next affected cell
BuildWrite(job) ==
  /\ At(job, "b_write")
  /\ LET pr == job
         key == Head(pr.affectedCells)
     IN  /\ cells' = [cells EXCEPT ![key] =
                        IF @.exists
                        THEN buildingCell(@, Buildings[pr.buildingName], pr.buildingName,
                                          pr.buildingId)
                        ELSE @]
         /\ Set(job, [pr EXCEPT !.affectedCells = Tail(@),
                                !.pc = IF Len(pr.affectedCells) = 1 THEN "b_save"
                                       ELSE "b_write"])
  /\ UNCHANGED <<players, nops, build, gateway, hist, store>>

\* the player's counter of the building and savePlayer
BuildSave(job) ==
  /\ At(job, "b_save")
  /\ LET pr == job
         p == pr.player
         currentCount == Count(players[p].buildings, pr.buildingName)
     IN  /\ players' = [players EXCEPT ![p].buildings =
                          SetCount(@, pr.buildingName, currentCount + 1)]
         /\ savePlayer(p, players'[p])
         /\ Set(job, Return(pr, "", NoResult))
  /\ UNCHANGED <<cells, nops, build, gateway, hist>>


\* construction material as forty drops of Olive items (type 2, ten points each) leave it
Material == builtCell(AbsentCell, 400, Some(2))

\* what a cell under a building's footprint can be instead: absent, never dropped on,
\* material of the type of items that are looked up by their colour, material one drop
\* short of the minimum, or already a wall
Defects ==
  { AbsentCell,
    NewCell(Olive, generateCellParams(K1), None),
    builtCell(AbsentCell, 400, Some(12)),
    builtCell(AbsentCell, 390, Some(2)),
    buildingCell(Material, Buildings[Wall], Wall, 0) }

\* the cells a house started at 0:0 covers
Footprint == {K1, K2, K4, K5}

InitBuild ==
  /\ \E bad \in SUBSET Footprint, defect \in Defects, clay \in BOOLEAN :
       /\ Cardinality(bad) <= 1
       /\ cells = [k \in Cells |->
                     IF k \in bad THEN defect
                     ELSE IF k \in Footprint THEN Material
                     ELSE IF k = K3 /\ clay
                     THEN NewCell(Clay, generateCellParams(K3), None)
                     ELSE AbsentCell]
  /\ players = [p \in Players |-> IF p = "p1" THEN Levelled(1, 0) ELSE NewPlayer]
  /\ procs = EmptyBag
  /\ nops = 0
  /\ gateway = NoGateway
  /\ stripUndefined = FALSE
  /\ saveTracksMixed = FALSE
  /\ responses = {}
  /\ hist = [k \in Cells |-> NewPeriod(0, 0)]
  /\ store = players

NextBuild ==
  \/ \E p \in Players, name \in {Wall, House, "Tower"} : BuildStart(p, name)
  \/ \E job \in InFlight : BuildCheck(job)
  \/ \E job \in InFlight : BuildWrite(job)
  \/ \E job \in InFlight : BuildSave(job)
  \/ \E p \in Players, c \in {Olive, Clay} : DropStart(p, c, 1)
  \/ \E job \in InFlight : DropCheck(job)
  \/ \E job \in InFlight : DropApply(job)
  \/ \E job \in InFlight : DropWrite(job)

SpecBuild == InitBuild /\ [][NextBuild]_vars

\* C14: a drop of an item whose type ceil(experience / 10) is not the constructionType
\* of the cell it found holding construction points is rejected for the type, and
\* neither the inventories nor the cells change.
C14_MismatchedDropRejected ==
  [][\A job \in InFlight :
       (/\ StepAt(job, "d_apply")
        /\ job.points > 0 /\ Has(job.type)
        /\ Ceil(job.item.experience, 10) # Val(job.type))
       => /\ players' = players /\ store' = store /\ cells' = cells
          /\ Response(Return(job, "type", NoResult)) \in responses'
          /\ \A other \in BagToSet(procs') : other \in InFlight]_vars

\* a drop on material was rejected for its type, and the player still holds every item
C14_Witness ==
  /\ \E r \in responses : r.op = "drop" /\ r.cause = "type"
  /\ Count(players["p1"].inventory, Olive) = 2 /\ Count(players["p1"].inventory, Clay) = 2
  /\ cells[K1].constructionPoints > 0


\* the cell passes for an offset: it exists, holds points of an allowed type, at least
\* the minimum, and belongs to no building but the one with this id
passes(cell, struct, buildingId) ==
  /\ cell.exists
  /\ cell.constructionPoints > 0
  /\ Has(cell.constructionType) /\ Val(cell.constructionType) \in struct.t
  /\ cell.constructionPoints >= struct.a
  /\ ~Has(cell.buildingId) \/ Val(cell.buildingId) = buildingId

\* C15: a build modifies a cell or increments the player's counter only while every
\* offset of the building passes: its cell is there, holds construction points, of an
\* allowed type, at least the minimum, and is not part of a building already.
C15_AllOrNothing ==
  [][\A job \in InFlight :
       (StepAt(job, "b_write") \/ StepAt(job, "b_save"))
       => \A n \in DOMAIN Buildings[job.buildingName].structure :
            LET struct == Buildings[job.buildingName].structure[n]
            IN  passes(cells[KeyAt(Xs[job.cell] + struct.x, Ys[job.cell] + struct.y)],
                       struct, job.buildingId)]_vars

\* C16: a cell that carries a buildingId keeps that buildingId: no later build tags it
\* again.
C16_NeverRetagged ==
  [][\A k \in Cells :
       Has(cells[k].buildingId) => cells'[k].buildingId = cells[k].buildingId]_vars


\* ------------------------------------------------- the cache and the players collection
\* movePlayer when the write of savePlayer throws: the cached player is already moved,
\* the players collection is not written and the exception reaches the gateway
MovePlayerThrows(p, k) ==
  /\ Budget
  /\ LET pl == players[p]
         cost == moveCost(pl)
     IN  /\ pl.position # k /\ pl.satiety >= cost
         /\ players' = [players EXCEPT ![p].satiety = Max(0, pl.satiety - cost),
                                       ![p].position = k]
  /\ responses' = responses \cup {[op |-> "move", cause |-> "exception", result |-> NoResult]}
  /\ nops' = nops + 1
  /\ UNCHANGED <<cells, procs, build, gateway, hist, store>>

\* getPlayers: its find over the players collection
GetPlayersFind ==
  /\ Room /\ Budget
  /\ Set(Idle, [Idle EXCEPT !.op = "players", !.pc = "gp_set", !.found = store])
  /\ nops' = nops + 1
  /\ UNCHANGED <<cells, players, build, gateway, hist, store>>

\* getPlayers: every player found replaces the cached one
GetPlayersSet(job) ==
  /\ At(job, "gp_set")
  /\ players' = job.found
  /\ Set(job, Return(job, "", NoResult))
  /\ UNCHANGED <<cells, nops, build, gateway, hist, store>>

InitLife ==
  /\ cells = [k \in Cells |-> AbsentCell]
  /\ players = [p \in Players |-> IF p = "p1" THEN Veteran ELSE NewPlayer]
  /\ procs = EmptyBag
  /\ nops = 0
  /\ gateway = NoGateway
  /\ stripUndefined = FALSE
  /\ saveTracksMixed = FALSE
  /\ responses = {}
  /\ hist = [k \in Cells |-> NewPeriod(0, 0)]
  /\ store = players

NextLife ==
  \/ \E p \in Players, k \in Targets : MovePlayer(p, k)
  \/ \E p \in Players, k \in Targets : MovePlayerThrows(p, k)
  \/ \E a \in Players, t \in Players : AttackPlayer(a, t)
  \/ \E p \in Players, u \in UpgradeTypes : ApplyUpgrade(p, u)
  \/ GetPlayersFind
  \/ \E job \in InFlight : GetPlayersSet(job)

SpecLife == InitLife /\ [][NextLife]_vars

\* C17: when the write of a player's record fails during an operation, the players the
\* cache serves afterwards are the players of before the operation.
C17_FailedWriteLeavesCache ==
  [][(\E r \in responses' : r.cause = "exception" /\ r \notin responses)
       => players' = players]_vars

\* C18: no step lowers a player's weight or maxHealth.
C18_WeightAndMaxHealthGrow ==
  [][\A p \in Players : /\ players'[p].weight >= players[p].weight
                        /\ players'[p].maxHealth >= players[p].maxHealth]_vars


\* ------------------------------------------------------------- the periodic sweep
\* the levels of the highest player when the sweep runs: on both sides of a power of
\* POWER_VALUES, and above the last one
SweepLevels == {1, 2, 8, 9, 247, 248, 249}

\* a cell a tap has collected at health 0: white, with its params reset, and with no
\* health where the $set of an undefined health stores null
Collected(k) == whiteCell(NewCell(paramsToColor(generateCellParams(k), 0, None),
                                  generateCellParams(k), Some(0)))

\* the same after material was dropped on it, a wall built and the wall collected
CollectedWall(k) ==
  whiteCell(buildingCell(builtCell(Collected(k), 400, Some(2)), Buildings[Wall], Wall, 0))

InitSweep ==
  /\ stripUndefined \in BOOLEAN
  /\ saveTracksMixed = FALSE
  /\ \E wall \in SUBSET {K1} :
       cells = [k \in Cells |->
                  IF k \in wall THEN CollectedWall(k)
                  ELSE IF k \in {K1, K2, K3} THEN Collected(k)
                  ELSE AbsentCell]
  /\ \E level \in SweepLevels :
       players = [p \in Players |-> IF p = "p1" THEN Levelled(level, 0)
                                    ELSE NewPlayer]
  /\ procs = EmptyBag
  /\ nops = 0
  /\ gateway = NoGateway
  /\ responses = {}
  /\ hist = [k \in Cells |-> [NewPeriod(0, 0) EXCEPT !.whitened = TRUE]]
  /\ store = players

NextSweep ==
  \/ SweepStart
  \/ \E job \in InFlight : SweepFind(job)
  \/ \E job \in InFlight : SweepWrite(job)
  \/ \E p \in Players, c \in DropColors, n \in DropCounts : DropStart(p, c, n)
  \/ \E job \in InFlight : DropCheck(job)
  \/ \E job \in InFlight : DropApply(job)
  \/ \E job \in InFlight : DropWrite(job)

SpecSweep == InitSweep /\ [][NextSweep]_vars

\* the highest level among the stored players
maxStoredLevel ==
  CHOOSE l \in {store[p].level : p \in Players} : \A q \in Players : store[q].level <= l

\* C20: a cell the sweep regenerates gets a power of POWER_VALUES that is at least the
\* highest level among the players (248, the last of POWER_VALUES, when the level is
\* above it), health = power * experience of its new params, an empty playerProgress
\* and no construction points.
C20_RegeneratedAboveMaxLevel ==
  [][\A job \in InFlight, k \in Cells :
       (StepAt(job, "sw_write") /\ cells'[k] # cells[k])
       => LET cell == cells'[k]
          IN  /\ \E i \in DOMAIN POWER_VALUES : cell.params.power = POWER_VALUES[i]
              /\ IF maxStoredLevel <= 248 THEN cell.params.power >= maxStoredLevel
                 ELSE cell.params.power = 248
              /\ cell.health = Some(cell.params.power * cell.params.experience)
              /\ cell.playerProgress = <<>>
              /\ cell.constructionPoints = 0]_vars

\* the sweep has regenerated a cell for players of level 9: its power is 16 or more
C20_Witness ==
  /\ maxStoredLevel = 9
  /\ \E k \in Cells : /\ cells[k].exists /\ cells[k].color # White
                      /\ cells[k].params.power >= 16
                      /\ hist[k].epoch = 1


\* ------------------------------------------------------------------ tapWhiteCell
\* the counter of white taps is the entry 'whiteTaps' of the cell's playerProgress
WhiteTaps == "whiteTaps"

\* getCellColorInternal of the tapped position
WhiteTapStart(k) ==
  /\ Room /\ Budget
  /\ CiRead(Idle, [Idle EXCEPT !.op = "white", !.cell = k, !.center = k], "wt_check")
  /\ nops' = nops + 1
  /\ UNCHANGED <<cells, players, build, gateway, hist, store>>

\* the white check, then the $setOnInsert upsert that returns the document
WhiteTapCheck(job) ==
  /\ At(job, "wt_check")
  /\ LET pr == job
         k == pr.cell
         doc == IF cells[k].exists THEN cells[k] ELSE NewCell(pr.ciColor, TerminalParams, None)
     IN  IF pr.ciColor # White
         THEN Set(job, Return(pr, "", NoResult)) /\ UNCHANGED cells
         ELSE /\ cells' = setOnInsert(k, doc)
              /\ Set(job, [Forget(pr) EXCEPT !.snapProgress = doc.playerProgress,
                                            !.pc = "wt_save"])
  /\ UNCHANGED <<players, nops, build, gateway, hist, store>>

\* the cells of the model within the radius 3 of the center, in the order of the loops
\* over dy and dx
explosionOrder(center) ==
  LET dx(k) == Xs[k] - Xs[center]
      dy(k) == Ys[k] - Ys[center]
      inside == {k \in Cells : dx(k) * dx(k) + dy(k) * dy(k) <= 3 * 3}
      before(j, k) == dy(j) < dy(k) \/ (dy(j) = dy(k) /\ dx(j) < dx(k))
  IN  [n \in 1 .. Cardinality(inside) |->
         CHOOSE k \in inside : Cardinality({j \in inside : before(j, k)}) = n - 1]

\* the counter goes up in the document in memory and cell.save() follows; at 10 taps
\* explodeWhiteCells starts
WhiteTapSave(job) ==
  /\ At(job, "wt_save")
  /\ LET pr == job
         k == pr.cell
         currentTaps == ProgressOf(pr.snapProgress, WhiteTaps) + 1
         saved == SetProgress(pr.snapProgress, WhiteTaps, currentTaps)
     IN  /\ cells' = IF saveTracksMixed /\ cells[k].exists
                     THEN [cells EXCEPT ![k].playerProgress = saved]
                     ELSE cells
         /\ IF currentTaps >= 10
            THEN Set(job, [pr EXCEPT !.snapProgress = <<>>, !.pc = "ex_read",
                                     !.positions = explosionOrder(pr.center)])
            ELSE Set(job, Return(pr, "", NoResult))
  /\ UNCHANGED <<players, nops, build, gateway, hist, store>>

\* explodeWhiteCells: getCellColorInternal of the next position within the radius
ExplodeRead(job) ==
  /\ At(job, "ex_read")
  /\ CiRead(job, [job EXCEPT !.cell = Head(job.positions)], "ex_write")
  /\ UNCHANGED <<cells, players, nops, build, gateway, hist, store>>

\* a detonation that draws the params the way the sweep does, above a minimum power
explodedCellAbove(doc, k) ==
  [doc EXCEPT !.exists = TRUE,
              !.color = paramsToColor(generateCellParamsWithMinPower(k, 8), 0, None),
              !.params = generateCellParamsWithMinPower(k, 8),
              !.playerProgress = SetProgress(@, WhiteTaps, 0)]

\* the $set (upsert) that gives a white cell its generated colour and params again
explodedCell(doc, k) ==
  [doc EXCEPT !.exists = TRUE,
              !.color = paramsToColor(generateCellParams(k), 0, None),
              !.params = generateCellParams(k),
              !.playerProgress = SetProgress(@, WhiteTaps, 0)]

\* a white cell is written; after the last position the handler returns exploded
ExplodeWrite(job) ==
  /\ At(job, "ex_write")
  /\ LET pr == job
         k == pr.cell
         rest == Tail(pr.positions)
         params == generateCellParams(k)
     IN  /\ IF pr.ciColor = White
            THEN /\ cells' = [cells EXCEPT ![k] = explodedCell(@, k)]
                 /\ hist' = [hist EXCEPT ![k] =
                               NewPeriod(@.epoch + 1, params.power * params.experience)]
            ELSE UNCHANGED <<cells, hist>>
         /\ IF rest = <<>>
            THEN Set(job, Return(pr, "", [NoResult EXCEPT !.exploded = TRUE]))
            ELSE Set(job, [Forget(pr) EXCEPT !.positions = rest, !.pc = "ex_read"])
  /\ UNCHANGED <<players, nops, build, gateway, store>>

\* a collected cell that has been tapped n times since
Tapped(k, n) ==
  [Collected(k) EXCEPT !.playerProgress = IF n = 0 THEN <<>>
                                          ELSE <<[k |-> WhiteTaps, v |-> n]>>]

\* a cell one tap away from being collected
Worn(k) ==
  [NewCell(paramsToColor(generateCellParams(k), 0, None), generateCellParams(k), Some(1))
     EXCEPT !.playerProgress = <<[k |-> "p1", v |-> 19]>>]

\* white cells around 0:0, one of them nine taps old where the counter is saved, or
\* 0:0 one tap away from being collected; 0:1 has its colour and 1:1 was never read
InitWhite ==
  /\ stripUndefined \in BOOLEAN
  /\ saveTracksMixed \in BOOLEAN
  /\ \E n \in {0, 9}, worn \in BOOLEAN, coloured \in SUBSET {K2, K3} :
       /\ n > 0 => saveTracksMixed /\ ~worn
       /\ cells = [k \in Cells |->
                     IF k = K1 THEN IF worn THEN Worn(K1) ELSE Tapped(K1, n)
                     ELSE IF k = K4 \/ k \in coloured
                     THEN NewCell(paramsToColor(generateCellParams(k), 0, None),
                                  generateCellParams(k), None)
                     ELSE IF k \in {K5, K7} THEN AbsentCell
                     ELSE Collected(k)]
  /\ players = [p \in Players |-> NewPlayer]
  /\ procs = EmptyBag
  /\ nops = 0
  /\ gateway = NoGateway
  /\ responses = {}
  /\ hist = [k \in Cells |-> NewPeriod(0, 0)]
  /\ store = players

NextWhite ==
  \/ \E k \in {K1, K4, K5, K6} : WhiteTapStart(k)
  \/ \E p \in Players, k \in Targets : TapStart(p, k)
  \/ \E job \in InFlight : CiUpsert(job)
  \/ \E job \in InFlight : GiUpsert(job)
  \/ \E job \in InFlight : GiSave(job)
  \/ \E job \in InFlight : TapCheck(job)
  \/ \E job \in InFlight : TapCheck2(job)
  \/ \E job \in InFlight : TapReject(job)
  \/ \E job \in InFlight : TapUpsert(job)
  \/ \E job \in InFlight : TapAfterUpsert(job)
  \/ \E job \in InFlight : TapWrite(job)
  \/ \E job \in InFlight : TapCollect(job)
  \/ \E job \in InFlight : TapReward(job)
  \/ \E job \in InFlight : TapWhite(job)
  \/ \E job \in InFlight : WhiteTapCheck(job)
  \/ \E job \in InFlight : WhiteTapSave(job)
  \/ \E job \in InFlight : ExplodeRead(job)
  \/ \E job \in InFlight : ExplodeWrite(job)

SpecWhite == InitWhite /\ [][NextWhite]_vars

\* the stored counter of white taps of a cell
whiteTaps(k) == ProgressOf(cells[k].playerProgress, WhiteTaps)

\* C19: a tap of a white cell raises that cell's counter by exactly one, and the tap
\* that raises it to 10 goes on to explode the white cells around it.
C19_CounterUpByOne ==
  [][\A job \in InFlight :
       StepAt(job, "wt_save")
       => /\ whiteTaps(job.cell)' = whiteTaps(job.cell) + 1
          /\ whiteTaps(job.cell)' = 10
               => \E next \in BagToSet(procs') : next.pc = "ex_read"]_vars


\* C21: the sweep writes only cells that are white when it writes them: a cell that a
\* drop has turned into construction material after the sweep selected it is left alone.
C21_SweepWritesWhiteOnly ==
  [][\A job \in InFlight, k \in Cells :
       (StepAt(job, "sw_write") /\ cells'[k] # cells[k]) => cells[k].color = White]_vars

\* C22: the write that makes a cell white leaves it terminal: no health, no progress,
\* no construction points, and food, building, experience and power all 0.
C22_TerminalAfterCollect ==
  [][\A k \in Cells :
       Whitened(k) => /\ cells'[k].health = None
                      /\ cells'[k].playerProgress = <<>>
                      /\ cells'[k].constructionPoints = 0
                      /\ cells'[k].params = Params(0, 0, 0, 0)]_vars


\* ------------------------------------------------------------------ the upgrades
\* the stat change of an upgrade as the rules state it: weight and satiety times 1.1,
\* maxHealth and health times 1.2, regeneration plus a half (one unit of
\* regeneration2), the other stats plus one
statChange(old, new, upgradeType) ==
  LET factor(f) == IF f = upgradeType THEN 1 ELSE 0
  IN  /\ new.weight = IF upgradeType = "weight" THEN Round(11 * old.weight, 10)
                      ELSE old.weight
      /\ new.satiety = IF upgradeType = "weight" THEN Round(11 * old.satiety, 10)
                       ELSE old.satiety
      /\ new.maxHealth = IF upgradeType = "maxHealth" THEN Round(12 * old.maxHealth, 10)
                         ELSE old.maxHealth
      /\ new.health = IF upgradeType = "maxHealth" THEN Round(12 * old.health, 10)
                      ELSE old.health
      /\ new.stamina = old.stamina + factor("stamina")
      /\ new.collectionPower = old.collectionPower + factor("collectionPower")
      /\ new.power = old.power + factor("power")
      /\ new.defense = old.defense + factor("defense")
      /\ new.luck = old.luck + factor("luck")
      /\ new.regeneration2 = old.regeneration2 + factor("regeneration")

\* C23: an upgrade asked with no available upgrade changes no player; any other applies
\* exactly the change of the chosen stat to that player, takes exactly one available
\* upgrade and changes nothing else; and availableUpgrades is never negative.
C23_UpgradeExactlyOnce ==
  /\ [][\A p \in Players, u \in UpgradeTypes :
          ApplyUpgrade(p, u)
          => IF players[p].availableUpgrades <= 0
             THEN players' = players
             ELSE /\ statChange(players[p], players'[p], u)
                  /\ players'[p].availableUpgrades = players[p].availableUpgrades - 1
                  /\ players'[p].level = players[p].level
                  /\ players'[p].inventory = players[p].inventory
                  /\ players'[p].position = players[p].position
                  /\ \A q \in Players \ {p} : players'[q] = players[q]]_vars
  /\ [](\A p \in Players : players[p].availableUpgrades >= 0)

\* a player has spent the last upgrade on maxHealth, which rescaled the health with it
C23_Witness ==
  \E p \in Players : /\ players[p].maxHealth = 120 /\ players[p].health = 120
                     /\ players[p].availableUpgrades = 0


DetonationStep(k) ==
  \E job \in InFlight : StepAt(job, "ex_write") /\ job.cell = k /\ cells'[k] # cells[k]

\* the step is the write of the first tap of cell k's period, and it collects the cell
FirstTapCollects(job) ==
  /\ job.op = "tap"
  /\ StepAt(job, "t_after") \/ StepAt(job, "t_write")
  /\ job.epoch = hist[job.cell].epoch /\ hist[job.cell].applied = 0
  /\ \E next \in BagToSet(procs') : next.pc = "t_collect" /\ next.cell = job.cell

\* C29: a cell a detonation has regenerated has health power * experience of its new
\* params, and the first tap after it collects the cell only when the tapper's
\* collectionPower is at least that health.
C29_FreshHealthAfterDetonation ==
  [][/\ \A k \in Cells :
          DetonationStep(k)
          => effectiveHealth(k)' = cells'[k].params.power * cells'[k].params.experience
     /\ \A job \in InFlight :
          (FirstTapCollects(job) /\ hist[job.cell].epoch > 0)
          => players[job.player].collectionPower >= hist[job.cell].initialHealth]_vars


\* the step inserts the document of cell k
Materialised(k) == ~cells[k].exists /\ cells'[k].exists

\* C26: the params of a cell depend on its coordinates alone: the document a read
\* inserts and the cell a detonation regenerates both carry generateCellParams(x, y),
\* so a regenerated cell has the params it had when it was first materialized.
C26_RegeneratedAsMaterialised ==
  [][\A k \in Cells :
       (Materialised(k) \/ DetonationStep(k))
       => /\ cells'[k].params = generateCellParams(k)
          /\ cells'[k].color = paramsToColor(generateCellParams(k), 0, None)]_vars

C26_Witness ==
  /\ hist[K1].epoch > 0
  /\ cells[K1].params = Params(30, 30, 20, 1)
  /\ cells[K5].exists /\ cells[K5].params = generateCellParams(K5)


\* ------------------------------------------------------------ colour sources
\* the colour sources within Euclidean distance 2 of cell k
SourcesNear(k) ==
  {s \in colorSources : (Xs[k] - s.x) * (Xs[k] - s.x) + (Ys[k] - s.y) * (Ys[k] - s.y) <= 4}

\* C25: a cell within distance 2 of a colour source is materialized with that
\* source's constant colour.
C25_SourceColourNearHotspot ==
  [][\A k \in Cells :
       Materialised(k) => \A s \in SourcesNear(k) : cells'[k].color = s.color]_vars


\* ------------------------------------------------------------ an accepted tap
\* the step is the debit and the $set of an accepted tap
AcceptedWrite(job) ==
  /\ job.op = "tap"
  /\ StepAt(job, "t_write") \/ (StepAt(job, "t_after") /\ Has(job.snapHealth))

\* C27: an accepted tap debits exactly tapFoodCost from the player's satiety, adds
\* it to totalFoodEaten, raises the player's progress on the cell by exactly
\* collectionPower, lowers the cell's health by exactly collectionPower, reports
\* tapAmount = collectionPower, and leaves every other player's progress alone.
C27_AcceptedTapAccounting ==
  [][\A job \in InFlight :
       AcceptedWrite(job)
       => LET p == job.player
              k == job.cell
              old == players[p]
              new == players'[p]
              foodCost == tapFoodCost(old)
          IN  /\ new.satiety = old.satiety - foodCost
              /\ new.totalFoodEaten = old.totalFoodEaten + foodCost
              /\ ProgressOf(cells'[k].playerProgress, p)
                   = ProgressOf(cells[k].playerProgress, p) + old.collectionPower
              /\ cells'[k].health = Some(effectiveHealth(k) - old.collectionPower)
              /\ \A next \in BagToSet(procs') :
                   (next.pc = "done" /\ CopiesIn(next, procs') > CopiesIn(next, procs))
                   => next.result.tapAmount = old.collectionPower
              /\ \A q \in Players \ {p} :
                   ProgressOf(cells'[k].playerProgress, q)
                     = ProgressOf(cells[k].playerProgress, q)]_vars


\* ------------------------------------------------------------ several levels at once
\* the highest experience of a stored player document drawn for item use
MaxExperience == 600

\* the players collection holds a document of p1 with any experience up to
\* MaxExperience; getOrCreatePlayer loads it as it is
InitLevel ==
  /\ cells = [k \in Cells |->
                IF k \in {K1, K3}
                THEN NewCell(paramsToColor(generateCellParams(k), 0, None),
                             generateCellParams(k), None)
                ELSE AbsentCell]
  /\ \E l \in 1 .. MaxLevel, e \in 0 .. MaxExperience :
       players = [p \in Players |-> IF p = "p1" THEN Levelled(l, e) ELSE NewPlayer]
  /\ procs = EmptyBag
  /\ nops = 0
  /\ gateway = NoGateway
  /\ stripUndefined = FALSE
  /\ saveTracksMixed = FALSE
  /\ responses = {}
  /\ hist = [k \in Cells |-> NewPeriod(0, 0)]
  /\ store = players

NextLevel ==
  \/ \E c \in {Olive, Clay}, u \in {"satiety", "experience"} : UseStart("p1", c, u)
  \/ \E job \in InFlight : UseApply(job)

SpecLevel == InitLevel /\ [][NextLevel]_vars

\* the one-level step repeated, with the threshold taken anew at every level
RECURSIVE levelByLevel(_)
levelByLevel(pl) ==
  IF pl.experience >= requiredExperience(pl.level)
  THEN levelByLevel([pl EXCEPT !.experience = @ - requiredExperience(pl.level),
                               !.level = @ + 1, !.availableUpgrades = @ + 1])
  ELSE pl

\* C28: an experience gain that spans several levels leaves the level, the available
\* upgrades and the experience that the one-level step leaves when it is repeated
\* with requiredExperience recomputed after every level.
C28_LevelByLevel ==
  [][\A job \in InFlight :
       (StepAt(job, "u_apply") /\ job.useType = "experience")
       => LET old == players[job.player]
              new == players'[job.player]
              gained == [old EXCEPT !.experience = @ + job.item.experience]
              want == levelByLevel(gained)
          IN  /\ new.level = want.level
              /\ new.availableUpgrades = want.availableUpgrades
              /\ new.experience = want.experience]_vars


\* ------------------------------------------------------------ a finished building
\* the cells the template of a building covers when it is started at a position
TemplateCells(buildingName, start) ==
  LET structure == Buildings[buildingName].structure
  IN  {KeyAt(Xs[start] + structure[n].x, Ys[start] + structure[n].y) :
         n \in 1 .. Len(structure)}

\* C30: when buildBuilding returns success, every cell of the template is stored with
\* the building colour, the template's cellPower and cellHealth, the building's name
\* and the buildingId of this call; the call's writes touch no other cell; and the
\* player's counter for the name has grown by exactly one.
C30_WholeTemplateTagged ==
  [][\A job \in InFlight :
       /\ StepAt(job, "b_save")
          => /\ \A k \in TemplateCells(job.buildingName, job.cell) :
                  /\ cells[k].color = BuildingRed
                  /\ cells[k].params.power = Buildings[job.buildingName].cellPower
                  /\ cells[k].health = Some(Buildings[job.buildingName].cellHealth)
                  /\ cells[k].buildingName = Some(job.buildingName)
                  /\ cells[k].buildingId = Some(job.buildingId)
             /\ Count(players'[job.player].buildings, job.buildingName)
                  = Count(players[job.player].buildings, job.buildingName) + 1
       /\ StepAt(job, "b_write")
          => \A k \in Cells \ TemplateCells(job.buildingName, job.cell) :
               cells'[k] = cells[k]]_vars


C32_AcceptedTapLowersHealth ==
  [][\A job \in InFlight :
       ( /\ AcceptedWrite(job)
         /\ cells[job.cell].exists /\ cells[job.cell].color # White
         /\ cells[job.cell].constructionPoints = 0 /\ ~hist[job.cell].built )
       => /\ Has(cells'[job.cell].health)
          /\ Val(cells'[job.cell].health) < effectiveHealth(job.cell)
          /\ (\E next \in BagToSet(procs') : next.pc = "t_collect" /\ next.cell = job.cell)
               <=> hist'[job.cell].applied >= hist'[job.cell].initialHealth]_vars


\* ------------------------------------------------------------ units of the inventory
\* C33: every item use that takes effect removes exactly one unit of the colour from
\* the inventory the player holds at that moment, and every drop that takes effect
\* removes exactly the dropped count, so no unit is used or dropped twice.
C33_UnitsConserved ==
  [][\A job \in InFlight :
       LET p == job.player
           held == Count(players[p].inventory, job.dropColor)
           left == Count(players'[p].inventory, job.dropColor)
       IN  /\ (StepAt(job, "u_apply") /\ players'[p] # players[p])
              => held >= 1 /\ left = held - 1
           /\ (StepAt(job, "d_apply") /\ \E next \in BagToSet(procs') : next.pc = "d_write")
              => held >= job.dropCount /\ left = held - job.dropCount]_vars


\* ------------------------------------------------------------ a reward and the cache
\* getPlayers' continuation at a moment when no other handler holds a player object
GetPlayersSetAlone(job) == BagCardinality(procs) = 1 /\ GetPlayersSet(job)

\* the veteran and a new player are connected, and a getPlayers call has read the
\* players collection
InitReward ==
  /\ cells = [k \in Cells |-> AbsentCell]
  /\ players = [p \in Players |-> IF p = "p1" THEN Veteran ELSE NewPlayer]
  /\ procs = SetToBag({[Idle EXCEPT !.op = "players", !.pc = "gp_set", !.found = players]})
  /\ nops = 0
  /\ gateway = NoGateway
  /\ stripUndefined \in BOOLEAN
  /\ saveTracksMixed = FALSE
  /\ responses = {}
  /\ hist = [k \in Cells |-> NewPeriod(0, 0)]
  /\ store = players

NextReward ==
  \/ \E p \in Players, k \in Targets : TapStart(p, k)
  \/ \E job \in InFlight : CiUpsert(job)
  \/ \E job \in InFlight : GiUpsert(job)
  \/ \E job \in InFlight : GiSave(job)
  \/ \E job \in InFlight : TapCheck(job)
  \/ \E job \in InFlight : TapCheck2(job)
  \/ \E job \in InFlight : TapReject(job)
  \/ \E job \in InFlight : TapUpsert(job)
  \/ \E job \in InFlight : TapAfterUpsert(job)
  \/ \E job \in InFlight : TapWrite(job)
  \/ \E job \in InFlight : TapCollect(job)
  \/ \E job \in InFlight : TapReward(job)
  \/ \E job \in InFlight : TapWhite(job)
  \/ \E p \in Players, k \in Targets : MovePlayer(p, k)
  \/ \E p \in Players, u \in UpgradeTypes : ApplyUpgrade(p, u)
  \/ GetPlayersFind
  \/ \E job \in InFlight : GetPlayersSetAlone(job)

SpecReward == InitReward /\ [][NextReward]_vars

\* C34: no step lowers the persisted totalCollected of a player or the persisted count
\* of a colour in a player's inventory (taps, moves, upgrades and the refresh of the
\* player list remove no item), so a reward that was saved stays saved.
C34_SavedRewardStays ==
  [][\A p \in Players :
       /\ store'[p].totalCollected >= store[p].totalCollected
       /\ \A c \in {Olive, Clay} :
            Count(store'[p].inventory, c) >= Count(store[p].inventory, c)]_vars

\* the winner of a collection ------------------------------------------------------
\* a tap of p2 on 0:0 that has its document from the upsert: the cell is one tap
\* away from being collected and all the progress on it is p1's
TapInHand ==
  [Idle EXCEPT !.op = "tap", !.pc = "t_after", !.player = "p2", !.cell = K1,
               !.color = Olive, !.params = generateCellParams(K1), !.health = 1,
               !.snapHealth = Worn(K1).health,
               !.snapProgress = Worn(K1).playerProgress,
               !.foodCost = tapFoodCost(NewPlayer)]

\* 0:0 is one tap away from being collected after 19 taps of p1, and a tap of p2 may
\* have read it already
InitWinner ==
  /\ cells = [k \in Cells |-> IF k = K1 THEN Worn(K1) ELSE AbsentCell]
  /\ players = [p \in Players |->
                  IF p = "p1" THEN [NewPlayer EXCEPT !.satiety = InitialSatiety - 19,
                                                     !.totalFoodEaten = 19]
                  ELSE NewPlayer]
  /\ \E inHand \in BOOLEAN : procs = IF inHand THEN SetToBag({TapInHand}) ELSE EmptyBag
  /\ nops = 0
  /\ gateway = NoGateway
  /\ stripUndefined \in BOOLEAN
  /\ saveTracksMixed = FALSE
  /\ responses = {}
  /\ hist = [k \in Cells |->
               IF k = K1
               THEN [NewPeriod(0, 20) EXCEPT !.inits = 1, !.applied = 19, !.tappers = {"p1"}]
               ELSE NewPeriod(0, 0)]
  /\ store = players

NextWinner ==
  \/ \E p \in Players, k \in Targets : TapStart(p, k)
  \/ \E job \in InFlight : CiUpsert(job)
  \/ \E job \in InFlight : GiUpsert(job)
  \/ \E job \in InFlight : GiSave(job)
  \/ \E job \in InFlight : TapCheck(job)
  \/ \E job \in InFlight : TapCheck2(job)
  \/ \E job \in InFlight : TapReject(job)
  \/ \E job \in InFlight : TapUpsert(job)
  \/ \E job \in InFlight : TapAfterUpsert(job)
  \/ \E job \in InFlight : TapWrite(job)
  \/ \E job \in InFlight : TapCollect(job)
  \/ \E job \in InFlight : TapReward(job)
  \/ \E job \in InFlight : TapWhite(job)
  \/ SweepStart
  \/ \E job \in InFlight : SweepFind(job)
  \/ \E job \in InFlight : SweepWrite(job)

SpecWinner == InitWinner /\ [][NextWinner]_vars

\* C35: the winner a collecting tap selects when its write brings the health to <= 0 is
\* a player, and one whose accepted tap was written to the cell in its current ACTIVE
\* period (since the cell was materialised or last regenerated); neither a bookkeeping
\* key nor progress of an earlier period wins.
C35_WinnerTappedThisPeriod ==
  [][\A job \in InFlight :
       AcceptedWrite(job)
       => \A next \in BagToSet(procs') :
            (next.pc = "t_collect" /\ next.cell = job.cell /\ next.player = job.player)
            => LET winnerId == winnerOf(next.snapProgress)
               IN  /\ winnerId \in Players
                   /\ winnerId \in hist'[job.cell].tappers]_vars

\* drops of any count --------------------------------------------------------------
\* the colour of construction material of type 2 that holds ten points (one Olive item
\* dropped on a white cell); a player who collects such a cell holds items of it
Gray == paramsToColor(Params(0, 10, 0, GrayPower), 10, Some(2))

\* the counts a caller passes to dropInventoryOnCell
DropAmounts == {-1, 0, 1, 2}

\* a veteran who holds two Olive items and one item of collected construction material
Hauler ==
  [Veteran EXCEPT !.inventory = SetCount(SetCount(EmptyInventory, Olive, 2), Gray, 1)]

\* the cell under the players was never read, is coloured, is collected, or holds
\* construction material of ten points
InitDrop ==
  /\ stripUndefined \in BOOLEAN
  /\ \E under \in {AbsentCell, NewCell(Olive, generateCellParams(K1), None), Collected(K1),
                   builtCell(Collected(K1), 10, Some(2))} :
       cells = [k \in Cells |-> IF k = K1 THEN under ELSE AbsentCell]
  /\ players = [p \in Players |-> IF p = "p1" THEN Hauler ELSE NewPlayer]
  /\ procs = EmptyBag
  /\ nops = 0
  /\ gateway = NoGateway
  /\ saveTracksMixed = FALSE
  /\ responses = {}
  /\ hist = [k \in Cells |-> NewPeriod(0, 0)]
  /\ store = players

NextDrop ==
  \/ \E p \in Players, c \in {Olive, Gray}, n \in DropAmounts : DropStart(p, c, n)
  \/ \E job \in InFlight : DropCheck(job)
  \/ \E job \in InFlight : DropApply(job)
  \/ \E job \in InFlight : DropWrite(job)
  \/ \E p \in Players, k \in Targets : MovePlayer(p, k)

SpecDrop == InitDrop /\ [][NextDrop]_vars

\* C36: no step of dropInventoryOnCell raises the count of a colour in a player's
\* inventory, whatever count is passed, and a drop that takes effect was called with a
\* count of at least 1 and removes exactly that many units of the colour.
C36_DropNeverAdds ==
  [][/\ \A p \in Players : \A c \in {Olive, Gray} :
          Count(players'[p].inventory, c) <= Count(players[p].inventory, c)
     /\ \A job \in InFlight :
          (StepAt(job, "d_apply") /\ \E next \in BagToSet(procs') : next.pc = "d_write")
          => /\ job.dropCount >= 1
             /\ Count(players'[job.player].inventory, job.dropColor)
                  = Count(players[job.player].inventory, job.dropColor) - job.dropCount]_vars

\* C37: after every drop of one or more items on a stored cell that takes effect the
\* cell is construction material: its constructionPoints are positive and at most
\* constructionType * 255, its health is 10 * constructionPoints, and it is white or
\* material for the next drop.
C37_DropLeavesMaterial ==
  [][\A job \in InFlight :
       (StepAt(job, "d_write") /\ job.dropCount >= 1 /\ cells[job.cell].exists)
       => LET cell == cells'[job.cell]
          IN  /\ cell.constructionPoints > 0
              /\ Has(cell.constructionType)
              /\ cell.constructionPoints <= Val(cell.constructionType) * 255
              /\ cell.health = Some(10 * cell.constructionPoints)
              /\ cell.color # White]_vars

\* C38: a drop of one or more items writes only to a cell that has a stored record and is white or holds
\* construction points; a coloured cell that was never collected, stored or not, is not
\* turned into construction material.
C38_DropOnlyOnWhiteOrMaterial ==
  [][\A job \in InFlight :
       (StepAt(job, "d_write") /\ job.dropCount >= 1)
       => LET cell == cells[job.cell]
          IN  /\ cell.exists
              /\ cell.color = White \/ cell.constructionPoints > 0]_vars

\* a collected building -------------------------------------------------------------
\* a wall at 0:0 that p1 has tapped down to its last 20 points of health
WornWall ==
  [buildingCell(Material, Buildings[Wall], Wall, 0)
     EXCEPT !.health = Some(20),
            !.playerProgress = <<[k |-> "p1", v |-> Buildings[Wall].cellHealth - 20]>>]

InitWall ==
  /\ cells = [k \in Cells |-> IF k = K1 THEN WornWall ELSE AbsentCell]
  /\ players = [p \in Players |-> IF p = "p1" THEN Hauler ELSE NewPlayer]
  /\ procs = EmptyBag
  /\ nops = 0
  /\ gateway = NoGateway
  /\ stripUndefined \in BOOLEAN
  /\ saveTracksMixed = FALSE
  /\ responses = {}
  /\ hist = [k \in Cells |->
               IF k = K1
               THEN [NewPeriod(0, Buildings[Wall].cellHealth)
                       EXCEPT !.inits = 1, !.applied = Buildings[Wall].cellHealth - 20,
                              !.tappers = {"p1"}]
               ELSE NewPeriod(0, 0)]
  /\ store = players

SpecWall == InitWall /\ [][NextWinner]_vars

\* C39: a cell that is white, or that was regenerated after it was collected, is part
\* of no building: it carries neither buildingName nor buildingId, and
\* getCellColorInternal does not show it in the building colour.
C39_CollectedLeavesBuilding ==
  \A k \in Cells :
    (cells[k].exists /\ (cells[k].color = White \/ hist[k].epoch > 0))
    => /\ ~Has(cells[k].buildingName)
       /\ ~Has(cells[k].buildingId)
       /\ cellColorInternal(k).color # BuildingRed

\* the gateway: one connection -----------------------------------------------------
\* client.id of the socket, the UUID createNewPlayer draws, and a player id that no
\* record has
Socket == "s1"
NewId == "u1"
UnknownId == "p9"

\* a record with that id is cached or stored
Known(id) == id \in DOMAIN players \/ id \in DOMAIN store

\* playersCache and the players collection after getOrCreatePlayer(id)
created(id) == IF Known(id) THEN {} ELSE {id}
cacheWith(id) ==
  IF id \in DOMAIN players THEN players
  ELSE [p \in DOMAIN players \cup {id} |->
          IF p # id THEN players[p] ELSE IF id \in DOMAIN store THEN store[id] ELSE NewPlayer]
storeWith(id) ==
  IF Known(id) THEN store
  ELSE [p \in DOMAIN store \cup {id} |-> IF p = id THEN NewPlayer ELSE store[p]]

\* the socket is mapped to the player
bound(g, id) ==
  [g EXCEPT !.socketToPlayerId = id, !.onlinePlayers = @ \cup {id}, !.actedAs = @ \cup {id}]

\* handleConnection up to its first await, or to its end when auth carries no playerId
HandleConnection(authPlayerId) ==
  /\ gateway.socketToPlayerId = ""
  /\ LET g == [gateway EXCEPT !.socketToPlayerId = Socket]
         pr == [Idle EXCEPT !.op = "connect", !.player = authPlayerId]
     IN  IF authPlayerId # ""
         THEN /\ gateway' = g
              /\ Set(Idle, [pr EXCEPT !.pc = "c_auth"])
         ELSE /\ gateway' = [g EXCEPT !.restore = "on", !.timer = "armed"]
              /\ Set(Idle, Return(pr, "", NoResult))
  /\ UNCHANGED <<cells, players, nops, build, hist, store>>

\* handleConnection after getPlayerById(authPlayerId)
ConnectionAuth(job) ==
  /\ At(job, "c_auth")
  /\ IF Known(job.player)
     THEN /\ gateway' = [bound(gateway, job.player) EXCEPT !.connectionHandled = TRUE,
                                                           !.restore = "auth"]
          /\ players' = cacheWith(job.player)
          /\ Set(job, Return(job, "restored", NoResult))
     ELSE /\ gateway' = [gateway EXCEPT !.restore = "on", !.timer = "armed"]
          /\ players' = players
          /\ Set(job, Return(job, "", NoResult))
  /\ UNCHANGED <<cells, nops, build, hist, store>>

\* a player:restore message: the handler up to its first await
PlayerRestore(playerId) ==
  /\ Room /\ Budget
  /\ gateway.restore # "off"
  /\ LET pr == [Idle EXCEPT !.op = "restore", !.player = playerId]
     IN  IF gateway.restore = "auth" \/ gateway.connectionHandled
         THEN /\ gateway' = gateway
              /\ Set(Idle, Return(pr, "handled", NoResult))
         ELSE /\ gateway' = [gateway EXCEPT !.connectionHandled = TRUE]
              /\ Set(Idle, [pr EXCEPT !.pc = "r_bind"])
  /\ nops' = nops + 1
  /\ UNCHANGED <<cells, players, build, hist, store>>

\* the restore handler after getPlayerById: the player is bound, and created when no
\* record has the id
RestoreBind(job) ==
  /\ At(job, "r_bind")
  /\ gateway' = [bound(gateway, job.player) EXCEPT !.created = @ \cup created(job.player)]
  /\ players' = cacheWith(job.player)
  /\ store' = storeWith(job.player)
  /\ Set(job, Return(job, "restored", NoResult))
  /\ UNCHANGED <<cells, nops, build, hist>>

\* the callback of setTimeout(..., 3000) up to its await
Timeout ==
  /\ gateway.timer = "armed"
  /\ LET pr == [Idle EXCEPT !.op = "timeout", !.player = NewId]
     IN  IF gateway.connectionHandled
         THEN /\ gateway' = [gateway EXCEPT !.timer = "fired"]
              /\ Set(Idle, Return(pr, "handled", NoResult))
         ELSE /\ gateway' = [gateway EXCEPT !.timer = "fired", !.connectionHandled = TRUE]
              /\ Set(Idle, [pr EXCEPT !.pc = "to_bind"])
  /\ UNCHANGED <<cells, players, nops, build, hist, store>>

\* the callback after createNewPlayer()
TimeoutBind(job) ==
  /\ At(job, "to_bind")
  /\ gateway' = [bound(gateway, job.player) EXCEPT !.created = @ \cup created(job.player)]
  /\ players' = cacheWith(job.player)
  /\ store' = storeWith(job.player)
  /\ Set(job, Return(job, "created", NoResult))
  /\ UNCHANGED <<cells, nops, build, hist>>

\* handleMove: getPlayerId(client) and movePlayer(playerId, position)
HandleMove(k) ==
  /\ Budget
  /\ gateway.socketToPlayerId # ""
  /\ LET playerId == gateway.socketToPlayerId
         pl == cacheWith(playerId)[playerId]
         cost == moveCost(pl)
         moved == IF pl.position = k \/ pl.satiety < cost THEN pl
                  ELSE [pl EXCEPT !.satiety = Max(0, pl.satiety - cost), !.position = k]
     IN  /\ gateway' = [gateway EXCEPT !.created = @ \cup created(playerId),
                                       !.actedAs = @ \cup {playerId}]
         /\ players' = [cacheWith(playerId) EXCEPT ![playerId] = moved]
         /\ store' = IF moved = pl THEN storeWith(playerId)
                     ELSE [p \in DOMAIN store \cup {playerId} |->
                             IF p = playerId THEN moved ELSE store[p]]
  /\ nops' = nops + 1
  /\ UNCHANGED <<cells, procs, build, responses, hist>>

\* one stored player, cached or not, and no socket
InitGateway ==
  /\ cells = [k \in Cells |-> AbsentCell]
  /\ store = [p \in {"p1"} |-> NewPlayer]
  /\ \E cached \in BOOLEAN : players = IF cached THEN store ELSE [p \in {} |-> NewPlayer]
  /\ procs = EmptyBag
  /\ nops = 0
  /\ gateway = NoGateway
  /\ stripUndefined = FALSE
  /\ saveTracksMixed = FALSE
  /\ responses = {}
  /\ hist = [k \in Cells |-> NewPeriod(0, 0)]

NextGateway ==
  \/ \E authPlayerId \in {"", "p1", UnknownId} : HandleConnection(authPlayerId)
  \/ \E job \in InFlight : ConnectionAuth(job)
  \/ \E playerId \in {"p1", UnknownId} : PlayerRestore(playerId)
  \/ \E job \in InFlight : RestoreBind(job)
  \/ Timeout
  \/ \E job \in InFlight : TimeoutBind(job)
  \/ \E k \in Targets : HandleMove(k)

SpecGateway == InitGateway /\ [][NextGateway]_vars

\* C40: in every ordering of the auth restore, player:restore messages, moves and the
\* timeout, the messages of the socket are handled as, and the socket is bound to, one
\* player only, and at most one player record is created for the connection.
C40_OnePlayerPerSocket ==
  /\ Cardinality(gateway.actedAs) <= 1
  /\ Cardinality(gateway.created) <= 1

====
